---- MODULE Spec2Model ----
(***************************************************************************)
(* Model of the Codeforces session and remote-submission orchestrator of   *)
(* BingoOJ (src-tauri/src/main.rs).                                        *)
(*                                                                         *)
(* Strings that the code searches, splits or parses (URLs, document        *)
(* titles, digit runs) are sequences of tokens; a token is a piece of text *)
(* that the code's patterns treat as a unit ("/submit", "__cf_chl", one    *)
(* decimal digit).  Option<T> is a sequence of length at most one.         *)
(***************************************************************************)
EXTENDS Integers, Sequences, FiniteSets, TLC

VARIABLES
    authState,   \* CODEFORCES_AUTH_STATE: the record under the mutex
    emitted,     \* the payload of the last "cf-auth-status" event, None before the first
    cookies,     \* the webview's cookies for https://codeforces.com/
    saved,       \* codeforces-cookies.json: None when the file is absent
    authWin,     \* whether the window labelled "codeforces-auth" exists
    ver,         \* the running session operations: position and locals
    started,     \* the number of session operations begun so far
    writer,      \* history: the start number of the operation whose result was stored last
    lastStatus,  \* history: what the last cf_get_auth_status call returned, None after an
                 \* error or a change of the cookies
    subWin,      \* the webview window labelled "codeforces-submit"
    att,         \* per cf_submit_solution call: caller position, channel, callbacks' state
    challenged,  \* history: the attempts whose surface has loaded a challenge page
    fetch,       \* the fetch_codeforces_html / fetch_codeforces_api_json call in progress
    poll,        \* the last cf_get_submission_status call: arguments, fetched data, result
    form,        \* the last use of the submit-form functions: inputs and results
    locks,       \* the mutex of CODEFORCES_AUTH_STATE and the position of each thread
                 \* in the operation it runs, instruction by instruction
    proc,        \* the run_process_with_input call in progress, its child and pipes
    install      \* TRANSLATION_INSTALL_STATE, the install_translation_support calls
                 \* and the installer threads

sessVars ==
    <<authState, emitted, cookies, saved, authWin, ver, started, writer, lastStatus>>
subVars == <<subWin, att, challenged>>
sysVars == <<locks, proc, install>>
auxVars == <<fetch, poll, form, locks, proc, install>>
vars ==
    <<authState, emitted, cookies, saved, authWin, ver, started, writer, lastStatus,
      subWin, att, challenged, fetch, poll, form, locks, proc, install>>

(* ------------------------------ bounds --------------------------------- *)
MaxAttempts == 2      \* cf_submit_solution calls in one behaviour
MaxEvents == 3        \* delivering webview events observed by one attempt
MaxThreads == 2       \* session operations in flight at the same time
MaxOps == 3           \* session operations begun in one behaviour, startup included
MaxEntries == 4       \* entries in the result array of one user.status answer
MaxFetches == 2       \* fetch_codeforces_html / fetch_codeforces_api_json calls in one behaviour
MaxOptions == 3       \* options of the compiler select of one page
MaxInput == 3         \* bytes of stdin handed to one run_process_with_input call
MaxOutput == 3        \* bytes a child writes to its stdout
PipeCap == 2          \* bytes a pipe holds before a write to it blocks
TimeoutPolls == 2     \* polls of try_wait that fit in the time limit

Attempts == 1..MaxAttempts
Threads == 1..MaxThreads

(* ------------------------------ Option --------------------------------- *)
None == <<>>
Some(x) == <<x>>
IsSome(o) == o # <<>>
Unwrap(o) == o[1]

(* --------------------------- text primitives --------------------------- *)
Digits == <<"0", "1", "2", "3", "4", "5", "6", "7", "8", "9">>
DigitSet == {Digits[i] : i \in 1..10}

\* char::is_ascii_digit
is_ascii_digit(ch) == ch \in DigitSet

DigitVal(ch) == (CHOOSE i \in 1..10 : Digits[i] = ch) - 1

\* format!("{n}") of an unsigned integer: decimal, no leading zeros
RECURSIVE Dec(_)
Dec(n) == IF n < 10 THEN <<Digits[n + 1]>> ELSE Dec(n \div 10) \o <<Digits[(n % 10) + 1]>>

\* str::contains
Contains(s, sub) ==
    \E i \in 1..(Len(s) - Len(sub) + 1) : SubSeq(s, i, i + Len(sub) - 1) = sub

\* str::find: index of the first occurrence, None when there is none
Find(s, sub) ==
    LET hits == {i \in 1..(Len(s) - Len(sub) + 1) : SubSeq(s, i, i + Len(sub) - 1) = sub}
    IN  IF hits = {} THEN None ELSE Some(CHOOSE i \in hits : \A j \in hits : i <= j)

\* chars().take_while(|ch| ch.is_ascii_digit()).collect()
RECURSIVE TakeWhileDigit(_)
TakeWhileDigit(s) ==
    IF s = <<>> \/ ~is_ascii_digit(Head(s)) THEN <<>>
    ELSE <<Head(s)>> \o TakeWhileDigit(Tail(s))

RECURSIVE StripZeros(_)
StripZeros(ds) ==
    IF Len(ds) > 1 /\ Head(ds) = "0" THEN StripZeros(Tail(ds)) ELSE ds

\* lexicographic "greater than" on digit sequences of equal length
RECURSIVE DigitsGreater(_, _)
DigitsGreater(x, y) ==
    IF x = <<>> THEN FALSE
    ELSE IF DigitVal(Head(x)) # DigitVal(Head(y)) THEN DigitVal(Head(x)) > DigitVal(Head(y))
    ELSE DigitsGreater(Tail(x), Tail(y))

\* u64::MAX = 18446744073709551615
U64MaxDigits ==
    <<"1", "8", "4", "4", "6", "7", "4", "4", "0", "7",
      "3", "7", "0", "9", "5", "5", "1", "6", "1", "5">>

\* str::parse::<u64>().ok() on a run of ASCII digits: the value as its
\* canonical decimal digits, None for the empty run and on overflow.
ParseU64(ds) ==
    IF ds = <<>> THEN None
    ELSE LET n == StripZeros(ds)
         IN  IF Len(n) > Len(U64MaxDigits)
                \/ (Len(n) = Len(U64MaxDigits) /\ DigitsGreater(n, U64MaxDigits))
             THEN None
             ELSE Some(n)

(* ------------------------ extract_submission_id ------------------------ *)
SubmissionNeedle(contest_id) == <<"/contest/">> \o Dec(contest_id) \o <<"/submission/">>

\* (mutation of extract_submission_id_from_url: the needle leaves the
\* contest id out, so a submission of any contest matches)
extract_submission_id_any_contest(url, contest_id) ==
    LET needle == <<"/submission/">>
        found == Find(url, needle)
    IN  IF ~IsSome(found) THEN None
        ELSE LET start == Unwrap(found) + Len(needle)
                 digits == TakeWhileDigit(SubSeq(url, start, Len(url)))
             IN  IF digits = <<>> THEN None ELSE ParseU64(digits)

extract_submission_id_from_url(url, contest_id) ==
    LET needle == SubmissionNeedle(contest_id)
        found == Find(url, needle)
    IN  IF ~IsSome(found) THEN None
        ELSE LET start == Unwrap(found) + Len(needle)
                 digits == TakeWhileDigit(SubSeq(url, start, Len(url)))
             IN  IF digits = <<>> THEN None ELSE ParseU64(digits)

(* --------------------------- session state ----------------------------- *)
MsgSignedOut == "Please log in before submitting"
MsgExpired == "Codeforces login has expired, please log in again"
MsgConnected == "Logged in, ready to submit"
MsgConnectedAs == "Logged in as handle"
MsgChecking == "Checking login status..."

\* CodeforcesAuthState::signed_out()
signed_out ==
    [connected |-> FALSE, checking |-> FALSE, expired |-> FALSE,
     handle |-> None, last_url |-> None, message |-> MsgSignedOut]

\* CodeforcesAuthState::expired()
expired ==
    [connected |-> FALSE, checking |-> FALSE, expired |-> TRUE,
     handle |-> None, last_url |-> None, message |-> MsgExpired]

\* String::is_empty on a token sequence: no token contributes a character
StrIsEmpty(s) == \A i \in 1..Len(s) : s[i] = ""

\* str::trim on a token sequence whose whitespace is the token " "
RECURSIVE TrimStart(_)
TrimStart(s) == IF s # <<>> /\ Head(s) = " " THEN TrimStart(Tail(s)) ELSE s
RECURSIVE TrimEnd(_)
TrimEnd(s) ==
    IF s # <<>> /\ s[Len(s)] = " " THEN TrimEnd(SubSeq(s, 1, Len(s) - 1)) ELSE s
Trim(s) == TrimEnd(TrimStart(s))

\* The cookies of the webview for https://codeforces.com/ are a sequence of
\* [name, value] records.  The header joins "name=value" with "; ".
RECURSIVE JoinCookies(_)
JoinCookies(jar) ==
    IF jar = <<>> THEN <<>>
    ELSE LET c == Head(jar)
             one == <<c.name, "=", c.value>>
         IN  IF Len(jar) = 1 THEN one
             ELSE one \o <<"; ">> \o JoinCookies(Tail(jar))

\* (mutation of codeforces_cookie_header: the empty header is handed on)
codeforces_cookie_header_unchecked(jar) == Some(JoinCookies(jar))

codeforces_cookie_header(jar) ==
    LET header == JoinCookies(jar)
    IN  IF StrIsEmpty(header) THEN None ELSE Some(header)

\* A page body is the sequence of its anchors, [href, text], in document
\* order.  The selector a[href^='/profile/'] keeps the anchors whose href
\* starts with "/profile/"; the handle is the first non-empty trimmed text.
RECURSIVE parse_codeforces_handle(_)
parse_codeforces_handle(body) ==
    IF body = <<>> THEN None
    ELSE LET node == Head(body)
             text == Trim(node.text)
         IN  IF node.href # <<>> /\ Head(node.href) = "/profile/" /\ ~StrIsEmpty(text)
             THEN Some(text)
             ELSE parse_codeforces_handle(Tail(body))

\* Result<T, String>
Ok(x) == [tag |-> "Ok", val |-> x]
Err(e) == [tag |-> "Err", val |-> e]

\* (mutation of ClassifyProfileResponse: the handle is looked for first)
ClassifyHandleFirst(final_url, body) ==
    LET handle == parse_codeforces_handle(body)
    IN  IF ~IsSome(handle) /\ Contains(final_url, <<"/enter">>)
        THEN [expired EXCEPT !.last_url = Some(final_url)]
        ELSE [connected |-> TRUE, checking |-> FALSE, expired |-> FALSE,
              handle |-> handle, last_url |-> Some(final_url),
              message |-> IF IsSome(handle) THEN MsgConnectedAs ELSE MsgConnected]

\* verify_codeforces_auth from the final URL on: classification of a
\* profile response that was fetched successfully.
ClassifyProfileResponse(final_url, body) ==
    IF Contains(final_url, <<"/enter">>)
    THEN [expired EXCEPT !.last_url = Some(final_url)]
    ELSE LET handle == parse_codeforces_handle(body)
         IN  [connected |-> TRUE, checking |-> FALSE, expired |-> FALSE,
              handle |-> handle, last_url |-> Some(final_url),
              message |-> IF IsSome(handle) THEN MsgConnectedAs ELSE MsgConnected]

\* A fetch of https://codeforces.com/settings/general: the transport's
\* answer, either an error text or a final URL with a body.
SettingsUrl == <<"https://codeforces.com", "/settings/general">>
LoginUrl == <<"https://codeforces.com", "/enter", "?back=%2Fsettings%2Fgeneral">>
BodyWithHandle ==
    <<[href |-> <<"/profile/", "tourist">>, text |-> <<" ">>],
      [href |-> <<"/profile/", "tourist">>, text |-> <<" ", "tourist", " ">>]>>
BodyPlain == <<[href |-> <<"/settings/general">>, text |-> <<"Settings">>]>>
MsgSendFailed == "verify Codeforces login failed"
MsgErrorStatus == "Codeforces login verification returned an error"

\* The answers of the transport, in a sequence: an error of send() or of
\* error_for_status(), or a response with its final URL and body.
ProfileResponses ==
    <<Err(MsgSendFailed),
      Err(MsgErrorStatus),
      Ok([final_url |-> SettingsUrl, body |-> BodyWithHandle]),
      Ok([final_url |-> SettingsUrl, body |-> BodyPlain]),
      Ok([final_url |-> LoginUrl, body |-> BodyWithHandle]),
      Ok([final_url |-> LoginUrl, body |-> BodyPlain])>>

Cookie(n, v) == [name |-> n, value |-> v]
CookieJars ==
    {<<>>, <<Cookie("JSESSIONID", "s1"), Cookie("_ga", "GA1"), Cookie("X-User", "")>>}

MsgCookieRead == "read Codeforces cookies failed"

\* What the webview can answer to cookies_for_url, in a sequence: the jar,
\* or an error
CookieReads(jar) == <<Ok(jar), Err(MsgCookieRead)>>

\* verify_codeforces_auth as a function of what the webview answers to the
\* cookie read and of the transport's answer to the profile request;
\* `requested` tells whether the request was issued at all.
verify_codeforces_auth(read, response) ==
    IF read.tag = "Err"
    THEN [result |-> Err(read.val), requested |-> FALSE]
    ELSE IF ~IsSome(codeforces_cookie_header(read.val))
    THEN [result |-> Ok(signed_out), requested |-> FALSE]
    ELSE IF response.tag = "Err"
         THEN [result |-> Err(response.val), requested |-> TRUE]
         ELSE [result |-> Ok(ClassifyProfileResponse(response.val.final_url,
                                                      response.val.body)),
               requested |-> TRUE]

\* set_codeforces_auth_state: the record is replaced as a whole under the
\* lock, then broadcast
set_codeforces_auth_state(state) ==
    /\ authState' = state
    /\ emitted' = Some(state)

AnalyticsCookieNames ==
    {"_ga", "_gid", "_gat", "_ym_d", "_ym_isad", "_ym_uid",
     "__utma", "__utmb", "__utmc", "__utmz"}

\* (mutation of should_persist_codeforces_cookie: the value is not looked at)
should_persist_any_value(cookie) == cookie.name \notin AnalyticsCookieNames

should_persist_codeforces_cookie(cookie) ==
    IF cookie.value = "" THEN FALSE ELSE cookie.name \notin AnalyticsCookieNames

snapshot_codeforces_cookies(jar) == SelectSeq(jar, should_persist_codeforces_cookie)

\* no thread runs an operation on the session state; the mutex is free
IdleLockThread == [op |-> "none", i |-> 0, inflight |-> FALSE]
IdleLocks == [holder |-> 0, th |-> [t \in Threads |-> IdleLockThread]]

\* no run_process_with_input call is in progress
IdleRun ==
    [pc |-> "idle", todo |-> 0, stdin_open |-> FALSE, inpipe |-> 0,
     reads |-> FALSE, out |-> 0, exits |-> FALSE, child |-> "none",
     outpipe |-> 0, elapsed |-> 0, ret |-> None]

\* TranslationInstallState::default(); no call, no installer thread
TotalSteps == 4
InstallIdleState == [active |-> FALSE, finished |-> FALSE, ready |-> FALSE, step |-> 0]
IdleInstall ==
    [state |-> InstallIdleState,
     calls |-> [c \in Threads |-> [pc |-> "idle", already_active |-> FALSE]],
     workers |-> [w \in Threads |-> 0]]

\* no fetch_codeforces_html / fetch_codeforces_api_json call is running.
\* attempt is the loop variable and n numbers the calls; primaries,
\* failures, fallbacks, errors and got are history of the call: the
\* requests the client sent, those of them that failed, the curl processes
\* started, the error of each failed request, and what curl gave.
IdleFetch ==
    [pc |-> "idle", kind |-> "none", attempt |-> 0, last_error |-> <<>>,
     primaries |-> 0, failures |-> 0, fallbacks |-> 0, errors |-> <<>>, got |-> None,
     ret |-> None, n |-> 0]

\* the submit-form functions have not been used.  op names the function
\* used last; the other fields are its inputs and what it returned.
IdleForm ==
    [op |-> "none", lang |-> "", options |-> <<>>, host |-> None, script |-> None,
     page |-> None, parsed |-> None]

\* no cf_get_submission_status call is running.  data is what
\* fetch_codeforces_api_json returned to the call, ret what the call returns.
IdlePoll ==
    [pc |-> "idle", submission_id |-> None, submitted_after |-> 0,
     data |-> None, ret |-> None]

\* a session operation that is not running.  seq numbers the operations
\* in the order they begin.  read, requested and response are history of
\* the operation's verification: what the cookie read gave, whether the
\* profile request was sent, and the response it received.
IdleThread ==
    [pc |-> "idle", kind |-> "none", seq |-> 0, status |-> None, cur |-> signed_out,
     read |-> "none", jar |-> <<>>, requested |-> FALSE, response |-> None, host_cf |-> FALSE,
     persisted |-> TRUE]

(* ------------------------ submission surface --------------------------- *)
ContestIds == {12}

TitleSubmitting == "Codeforces submitting"      \* .title(...) of the builder
TitleVerification == "Codeforces verification"  \* set_title in the prompt

NoWindow == [open |-> FALSE, owner |-> 0, title |-> "", front |-> FALSE]
NewSubmitWindow(a) ==
    [open |-> TRUE, owner |-> a, title |-> TitleSubmitting, front |-> FALSE]

MsgNotConnected == <<"Codeforces account is not connected yet.">>
MsgTimedOut == <<"Timed out while waiting for Codeforces to accept the submission.">>
MsgOpenFailed == <<"open Codeforces submit window failed">>
MsgNavigateFailed == <<"navigate Codeforces submit window failed">>
MsgChallenge ==
    <<"Please complete the anti-bot verification",
      " in the opened Codeforces window, then click Submit again.">>

\* the state of one cf_submit_solution call before it is made
IdleAttempt ==
    [pc |-> "idle", contest_id |-> 0, result |-> None,
     sender |-> FALSE, rx |-> FALSE, chan |-> <<>>,
     form_submitted |-> FALSE, inspect_requested |-> FALSE,
     first_tried |-> None, n_tried |-> 0, sent |-> <<>>, evals |-> <<>>,
     submit_loads |-> 0, restore_failed |-> FALSE]

\* WebviewSubmitState::default(), sync_channel(1), Arc<Mutex<Some(tx)>>
FreshAttempt(contest_id) ==
    [IdleAttempt EXCEPT !.contest_id = contest_id, !.sender = TRUE, !.rx = TRUE]

\* (mutation of TakeSender: the slot is read and left full)
TakeSenderKeepsSlot(s) == s

\* sender.lock().take(): the slot is empty afterwards
TakeSender(s) == [s EXCEPT !.sender = FALSE]

\* `if let Some(tx) = tx { let _ = tx.send(result); }` for the slot content
\* taken from s: a send on a channel whose receiver is gone fails and is
\* ignored.  first_tried, n_tried and sent are the history of the attempt:
\* the first outcome a callback tried to deliver, the number of deliveries
\* tried and the sends made.
SendTaken(s, result) ==
    LET t == [TakeSender(s) EXCEPT
                  !.first_tried = IF s.n_tried = 0 THEN Some(result) ELSE @,
                  !.n_tried = @ + 1]
    IN  IF s.sender
        THEN [t EXCEPT !.sent = Append(@, result),
                       !.chan = IF s.rx THEN Append(@, result) ELSE @]
        ELSE t

\* The callbacks of the surface are functions of what they can touch: c.s,
\* the attempt's record, and c.w, the window.  They return both as they
\* are when the callback ends.
finish_webview_submit(c, result) ==
    [s |-> SendTaken(c.s, result), w |-> NoWindow]

\* (mutation of prompt_webview_submit_verification: the window is closed
\* as finish_webview_submit closes it)
prompt_webview_submit_closing(c, message) == finish_webview_submit(c, Err(message))

\* the window stays open: set_title, show, set_focus
prompt_webview_submit_verification(c, message) ==
    [s |-> SendTaken(c.s, Err(message)),
     w |-> [c.w EXCEPT !.title = TitleVerification, !.front = TRUE]]

\* (mutation of MarkSubmitted: the flag is left as it was)
MarkSubmittedNot(s) == s

\* state.form_submitted = true
MarkSubmitted(s) == [s EXCEPT !.form_submitted = TRUE]

\* (mutation of MarkInspected: the flag is left as it was)
MarkInspectedNot(s) == s

\* state.inspect_requested = true
MarkInspected(s) == [s EXCEPT !.inspect_requested = TRUE]

\* the closure given to on_page_load.  evals and submit_loads are the
\* history of the attempt: the scripts handed to window.eval, and the
\* number of finished loads that reached the lock on WebviewSubmitState.
on_page_load(c, event, url) ==
    IF event # "Finished" THEN c
    ELSE IF Contains(url, <<"__cf_chl">>)
    THEN prompt_webview_submit_verification(c, MsgChallenge)
    ELSE LET id == extract_submission_id_from_url(url, c.s.contest_id)
         IN  IF IsSome(id) THEN finish_webview_submit(c, Ok(Unwrap(id)))
             ELSE IF ~Contains(url, <<"/submit">>) THEN c
             ELSE LET d == [c EXCEPT !.s.submit_loads = @ + 1]
                  IN  IF ~c.s.form_submitted
                      THEN [d EXCEPT !.s = [MarkSubmitted(@) EXCEPT
                                               !.evals = Append(@, "submit_script")]]
                      ELSE IF ~c.s.inspect_requested
                      THEN [d EXCEPT !.s = [MarkInspected(@) EXCEPT
                                               !.evals = Append(@, "inspect_script")]]
                      ELSE d

\* the closure given to on_document_title_changed
on_document_title_changed(c, title) ==
    IF title # <<>> /\ Head(title) = "__BINGOOJ_SUBMIT_ERROR__:"
    THEN prompt_webview_submit_verification(c, Tail(title))
    ELSE IF title = <<"__BINGOOJ_SUBMITTING__">> THEN c
    ELSE IF Contains(title, <<"Just a moment">>)
            \/ Contains(title, <<"Please complete the anti-bot verification">>)
    THEN prompt_webview_submit_verification(c, MsgChallenge)
    ELSE c

\* URLs a page load of the submission surface can report
Host == "https://codeforces.com"
UrlSubmitPage == <<Host, "/problemset", "/submit", "?contestId=">>
UrlChallenge == <<Host, "/problemset", "/submit", "?", "__cf_chl">>
UrlAccepted == <<Host, "/contest/", "1", "2", "/submission/", "0", "5", "5", "?f=", "7">>
UrlOtherContest == <<Host, "/contest/", "1", "/submission/", "7">>
UrlNoDigits == <<Host, "/contest/", "1", "2", "/submission/">>
UrlAcceptedChallenge ==
    <<Host, "/contest/", "1", "2", "/submission/", "5", "?", "__cf_chl">>
UrlSecondNeedle ==
    <<Host, "/contest/", "1", "2", "/submission/", "?back=",
      "/contest/", "1", "2", "/submission/", "9">>
UrlOverflow ==
    <<Host, "/contest/", "1", "2", "/submission/">>
        \o <<"1", "8", "4", "4", "6", "7", "4", "4", "0", "7",
             "3", "7", "0", "9", "5", "5", "1", "6", "1", "6">>
UrlStatus == <<Host, "/problemset", "/status">>
UrlBlank == <<"about:blank">>
SubmitUrls ==
    {UrlSubmitPage, UrlChallenge, UrlAccepted, UrlOtherContest, UrlNoDigits,
     UrlAcceptedChallenge, UrlSecondNeedle, UrlOverflow, UrlStatus, UrlBlank}

\* document titles the submission surface can report
SubmitTitles ==
    {<<"__BINGOOJ_SUBMIT_ERROR__:", "Codeforces submit form was not found.">>,
     <<"__BINGOOJ_SUBMIT_ERROR__:">>,
     <<"__BINGOOJ_SUBMITTING__">>,
     <<"Just a moment", "...">>,
     <<"Error: ", "__BINGOOJ_SUBMIT_ERROR__:", "x">>,
     <<"Submit - Codeforces">>}

PageLoadEvents == {"Started", "Finished"}

\* a callback of attempt a's surface can run while that surface exists
SurfaceAlive(a) ==
    /\ subWin.open /\ subWin.owner = a
    /\ att[a].n_tried < MaxEvents
    /\ Len(att[a].sent) < MaxEvents
    /\ Len(att[a].evals) < MaxEvents
    /\ att[a].submit_loads < MaxEvents

\* what a callback of attempt a can touch
Ctx(a) == [s |-> att[a], w |-> subWin]

PageLoad(a) ==
    /\ SurfaceAlive(a)
    /\ \E event \in PageLoadEvents, url \in SubmitUrls :
          /\ att' = [att EXCEPT ![a] = on_page_load(Ctx(a), event, url).s]
          /\ subWin' = on_page_load(Ctx(a), event, url).w
          /\ challenged' = IF event = "Finished" /\ Contains(url, <<"__cf_chl">>)
                            THEN challenged \cup {a} ELSE challenged
    /\ UNCHANGED <<sessVars, auxVars>>

TitleChanged(a) ==
    /\ SurfaceAlive(a)
    /\ \E title \in SubmitTitles :
          /\ att' = [att EXCEPT ![a] = on_document_title_changed(Ctx(a), title).s]
          /\ subWin' = on_document_title_changed(Ctx(a), title).w
    /\ UNCHANGED <<sessVars, auxVars, challenged>>

\* (mutation of SubmitGate: the connected flag is not consulted)
SubmitGateOpen(state) == TRUE

\* `if !state.connected { return Err(..) }` at the head of cf_submit_solution
SubmitGate(state) == state.connected

\* What is left of an earlier call when a later call closes the window
\* labelled "codeforces-submit": the window's closures go with it, and with
\* them the sender slot and the WebviewSubmitState.  A caller that still
\* waits keeps its receiver and what the channel buffers; a call that has
\* returned leaves nothing.
Superseded(s) ==
    IF s.pc = "waiting"
    THEN [IdleAttempt EXCEPT !.pc = "waiting", !.contest_id = s.contest_id,
                             !.rx = TRUE, !.chan = s.chan]
    ELSE IF s.pc = "idle" THEN s
    ELSE [IdleAttempt EXCEPT !.pc = "done"]

\* (mutation of cf_submit_solution: a surface that already exists is kept
\* and reused by the new call instead of being closed)
cf_submit_solution_keeps_surface(a, contest_id, failure) ==
    /\ att[a].pc = "idle"
    /\ \A b \in Attempts : b < a => att[b].pc # "idle"
    /\ UNCHANGED <<sessVars, auxVars, challenged>>
    /\ IF ~SubmitGate(authState)
       THEN /\ att' = [att EXCEPT ![a] = [@ EXCEPT !.pc = "returned",
                                                   !.result = Some(Err(MsgNotConnected))]]
            /\ UNCHANGED subWin
       ELSE /\ att' = [att EXCEPT ![a] =
                           [FreshAttempt(contest_id) EXCEPT !.pc = "waiting"]]
            /\ subWin' = IF subWin.open THEN subWin ELSE NewSubmitWindow(a)

\* cf_submit_solution up to the wait on the channel.  `failure` is the step
\* of the call that fails: the builder's build(), restore_codeforces_cookies
\* (`let _ =`: the call goes on; restore_failed is the history of it),
\* navigate(), or none.
cf_submit_solution(a, contest_id, failure) ==
    /\ att[a].pc = "idle"
    /\ \A b \in Attempts : b < a => att[b].pc # "idle"
    /\ UNCHANGED <<sessVars, auxVars>>
    /\ challenged' = IF SubmitGate(authState) THEN {} ELSE challenged
    /\ IF ~SubmitGate(authState)
       THEN /\ att' = [att EXCEPT ![a] = [@ EXCEPT !.pc = "returned",
                                                   !.result = Some(Err(MsgNotConnected))]]
            /\ UNCHANGED subWin
       ELSE CASE failure = "build" ->
                 /\ att' = [b \in Attempts |->
                              IF b # a THEN Superseded(att[b])
                              ELSE [IdleAttempt EXCEPT
                                        !.pc = "returned", !.contest_id = contest_id,
                                        !.result = Some(Err(MsgOpenFailed))]]
                 /\ subWin' = NoWindow
              [] failure = "navigate" ->
                 /\ att' = [b \in Attempts |->
                              IF b # a THEN Superseded(att[b])
                              ELSE [FreshAttempt(contest_id) EXCEPT
                                        !.pc = "returned", !.rx = FALSE,
                                        !.result = Some(Err(MsgNavigateFailed))]]
                 /\ subWin' = NewSubmitWindow(a)
              [] OTHER ->
                 /\ att' = [b \in Attempts |->
                              IF b # a THEN Superseded(att[b])
                              ELSE [FreshAttempt(contest_id) EXCEPT
                                        !.pc = "waiting",
                                        !.restore_failed = (failure = "restore")]]
                 /\ subWin' = NewSubmitWindow(a)

SubmitCall(a) ==
    \E contest_id \in ContestIds, failure \in {"none", "build", "restore", "navigate"} :
        cf_submit_solution(a, contest_id, failure)

\* rx.recv_timeout(30 s) returns the buffered outcome
SubmitReceive(a) ==
    /\ att[a].pc = "waiting"
    /\ att[a].chan # <<>>
    /\ att' = [att EXCEPT ![a] = [@ EXCEPT !.pc = "returned", !.rx = FALSE,
                                           !.chan = Tail(@),
                                           !.result = Some(Head(att[a].chan))]]
    /\ UNCHANGED <<sessVars, auxVars, subWin, challenged>>

\* (mutation of SubmitTimeout: the surface is closed on the way out)
SubmitTimeoutClosing(a) ==
    /\ att[a].pc = "waiting"
    /\ att[a].chan = <<>>
    /\ att' = [att EXCEPT ![a] = [@ EXCEPT !.pc = "returned", !.rx = FALSE,
                                           !.result = Some(Err(MsgTimedOut))]]
    /\ subWin' = NoWindow
    /\ UNCHANGED <<sessVars, auxVars, challenged>>

\* rx.recv_timeout(30 s) returns Err (the ceiling passed, or every sender
\* is gone): the caller gets the timed-out text
SubmitTimeout(a) ==
    /\ att[a].pc = "waiting"
    /\ att[a].chan = <<>>
    /\ att' = [att EXCEPT ![a] = [@ EXCEPT !.pc = "returned", !.rx = FALSE,
                                           !.result = Some(Err(MsgTimedOut))]]
    /\ UNCHANGED <<sessVars, auxVars, subWin, challenged>>

\* refresh_codeforces_auth_state run to its end without interleaving, as
\* the submission path sees it: cookies read, profile fetched, jar saved or
\* deleted, record replaced and broadcast; a failed verification returns
\* before any of the writes.
RefreshAtomic ==
    /\ \E i \in DOMAIN CookieReads(cookies), j \in DOMAIN ProfileResponses :
          LET v == verify_codeforces_auth(CookieReads(cookies)[i], ProfileResponses[j])
          IN  IF v.result.tag = "Ok"
              THEN /\ saved' = IF v.result.val.connected
                               THEN Some(snapshot_codeforces_cookies(cookies))
                               ELSE None
                   /\ set_codeforces_auth_state(v.result.val)
              ELSE UNCHANGED <<authState, emitted, saved>>
    /\ UNCHANGED <<cookies, authWin, ver, started, writer, lastStatus, subVars, auxVars>>

\* the user is logged in in the webview; no session operation is running
SubmitInit ==
    /\ authState = signed_out
    /\ emitted = None
    /\ cookies = <<Cookie("JSESSIONID", "s1"), Cookie("_ga", "GA1")>>
    /\ saved = None
    /\ authWin = FALSE
    /\ ver = [t \in Threads |-> IdleThread]
    /\ started = 0
    /\ writer = 0
    /\ lastStatus = None
    /\ subWin = NoWindow
    /\ att = [a \in Attempts |-> IdleAttempt]
    /\ challenged = {}
    /\ fetch = IdleFetch
    /\ poll = IdlePoll
    /\ form = IdleForm
    /\ locks = IdleLocks
    /\ proc = IdleRun
    /\ install = IdleInstall

SubmitNext ==
    \/ RefreshAtomic
    \/ \E a \in Attempts : SubmitCall(a)
    \/ \E a \in Attempts : PageLoad(a)
    \/ \E a \in Attempts : TitleChanged(a)
    \/ \E a \in Attempts : SubmitReceive(a)
    \/ \E a \in Attempts : SubmitTimeout(a)

SubmitSpec == SubmitInit /\ [][SubmitNext]_vars

(* ========================= session operations ========================== *)
\* Every operation on the session runs in a slot of ver.  A step is what
\* the operation does between two points where another thread can run: a
\* critical section of with_codeforces_auth_state is one step, and so is a
\* file operation or an emit.  verify_codeforces_auth reads shared state
\* once (the cookies), so the read, the request and the classification are
\* one step.
MsgRemoveSaved == "remove saved Codeforces cookies failed"

\* URLs the login window can navigate to; the second is on another host
NavUrls == {LoginUrl, <<"https://accounts.google.com", "/o/oauth2">>}

\* url.host_str() == Some("codeforces.com")
HostIsCodeforces(url) == Head(url) = "https://codeforces.com"

Goto(t, pc) == [ver EXCEPT ![t].pc = pc]

\* a new operation takes the lowest free slot
CanBegin(t) ==
    /\ ver[t].pc = "idle"
    /\ \A u \in Threads : u < t => ver[u].pc # "idle"

\* where an operation goes when refresh_codeforces_auth_state returns Err:
\* schedule_codeforces_auth_refresh handles it in its Err arm; the other
\* callers hand it on (cf_get_auth_status) or drop it (startup) and return
AfterRefreshError(kind) == IF kind = "scheduled" THEN "e_read" ELSE "return"

\* (mutation of CheckingState: the snapshot is rebuilt as a connected
\* record instead of being cloned)
CheckingStateRebuilt(current) ==
    [connected |-> TRUE, checking |-> TRUE, expired |-> current.expired,
     handle |-> current.handle, last_url |-> current.last_url,
     message |-> MsgChecking]

\* schedule_codeforces_auth_refresh: the clone with checking = true
CheckingState(current) ==
    [current EXCEPT !.checking = TRUE,
                    !.message = IF current.message = "" THEN MsgChecking ELSE @]

\* (mutation of ErrorState: checking is copied from the record read)
ErrorStateKeepsChecking(current, err) ==
    [connected |-> FALSE, checking |-> current.checking, expired |-> FALSE,
     handle |-> None, last_url |-> current.last_url, message |-> err]

\* schedule_codeforces_auth_refresh, Err arm: the record written
ErrorState(current, err) ==
    [connected |-> FALSE, checking |-> FALSE, expired |-> FALSE,
     handle |-> None, last_url |-> current.last_url, message |-> err]

ReadKind(read) ==
    IF read.tag = "Err" THEN "failed"
    ELSE IF read.val = <<>> THEN "empty" ELSE "entries"

\* verify_codeforces_auth, run by the operation in slot t
Verify(t, kind) ==
    \E i \in DOMAIN CookieReads(cookies), j \in DOMAIN ProfileResponses :
        LET read == CookieReads(cookies)[i]
            response == ProfileResponses[j]
            v == verify_codeforces_auth(read, response)
        IN  ver' = [ver EXCEPT ![t] = [IdleThread EXCEPT
                !.seq = IF ver[t].pc = "idle" THEN started + 1 ELSE ver[t].seq,
                !.pc = IF v.result.tag = "Ok" THEN "persist"
                       ELSE AfterRefreshError(kind),
                !.kind = kind,
                !.status = Some(v.result),
                !.read = ReadKind(read),
                !.jar = IF read.tag = "Ok" THEN read.val ELSE <<>>,
                !.requested = v.requested,
                !.response = IF v.requested /\ response.tag = "Ok"
                             THEN Some(response.val) ELSE None]]

\* cf_get_auth_status is invoked: refresh_codeforces_auth_state begins
StartStatus(t) ==
    /\ CanBegin(t)
    /\ started < MaxOps
    /\ started' = started + 1
    /\ Verify(t, "status")
    /\ UNCHANGED <<authState, emitted, cookies, saved, authWin, writer, lastStatus, subVars, auxVars>>

\* main(): the startup thread begins refresh_codeforces_auth_state
StartupVerify(t) ==
    /\ ver[t].pc = "startup"
    /\ Verify(t, "startup")
    /\ UNCHANGED <<authState, emitted, cookies, saved, authWin, started, writer, lastStatus, subVars, auxVars>>

\* the thread spawned by schedule_codeforces_auth_refresh begins
\* refresh_codeforces_auth_state
ScheduledVerify(t) ==
    /\ ver[t].pc = "verify"
    /\ Verify(t, "scheduled")
    /\ UNCHANGED <<authState, emitted, cookies, saved, authWin, started, writer, lastStatus, subVars, auxVars>>

\* cf_open_auth_window: the login window is shown or built, and
\* schedule_codeforces_auth_refresh reads the current record
StartOpenAuthWindow(t) ==
    /\ CanBegin(t)
    /\ started < MaxOps
    /\ started' = started + 1
    /\ authWin' = TRUE
    /\ ver' = [ver EXCEPT ![t] = [IdleThread EXCEPT
                   !.pc = "s_store", !.kind = "scheduled", !.seq = started + 1,
                   !.cur = authState]]
    /\ UNCHANGED <<authState, emitted, cookies, saved, writer, lastStatus, subVars, auxVars>>

\* on_navigation of the login window, first statement: last_url is
\* assigned in place under the lock
NavCallback(t) ==
    /\ CanBegin(t)
    /\ authWin
    /\ started < MaxOps
    /\ started' = started + 1
    /\ \E url \in NavUrls :
          /\ authState' = [authState EXCEPT !.last_url = Some(url)]
          /\ ver' = [ver EXCEPT ![t] = [IdleThread EXCEPT
                         !.pc = "n_emit", !.kind = "scheduled", !.seq = started + 1,
                         !.host_cf = HostIsCodeforces(url)]]
    /\ UNCHANGED <<emitted, cookies, saved, authWin, writer, lastStatus, subVars, auxVars>>

\* on_navigation, second statement: the current record is read and
\* emitted; for a codeforces.com URL the refresh is scheduled next
NavEmit(t) ==
    /\ ver[t].pc = "n_emit"
    /\ emitted' = Some(authState)
    /\ ver' = [ver EXCEPT ![t] =
                  IF ver[t].host_cf
                  THEN [IdleThread EXCEPT !.pc = "s_read", !.kind = "scheduled",
                                          !.seq = ver[t].seq]
                  ELSE IdleThread]
    /\ UNCHANGED <<authState, cookies, saved, authWin, started, writer, lastStatus, subVars, auxVars>>

\* schedule_codeforces_auth_refresh: current_codeforces_auth_state()
SchedRead(t) ==
    /\ ver[t].pc = "s_read"
    /\ ver' = [ver EXCEPT ![t].pc = "s_store", ![t].cur = authState]
    /\ UNCHANGED <<authState, emitted, cookies, saved, authWin, started, writer, lastStatus, subVars, auxVars>>

\* schedule_codeforces_auth_refresh: set_codeforces_auth_state, the store
SchedStore(t) ==
    /\ ver[t].pc = "s_store"
    /\ authState' = CheckingState(ver[t].cur)
    /\ ver' = [ver EXCEPT ![t].pc = "s_emit", ![t].cur = CheckingState(ver[t].cur)]
    /\ UNCHANGED <<emitted, cookies, saved, authWin, started, writer, lastStatus, subVars, auxVars>>

\* schedule_codeforces_auth_refresh: set_codeforces_auth_state, the emit;
\* then the verification thread is spawned
SchedEmit(t) ==
    /\ ver[t].pc = "s_emit"
    /\ emitted' = Some(ver[t].cur)
    /\ ver' = [ver EXCEPT ![t] = [IdleThread EXCEPT !.pc = "verify", !.kind = "scheduled",
                                                    !.seq = ver[t].seq]]
    /\ UNCHANGED <<authState, cookies, saved, authWin, started, writer, lastStatus, subVars, auxVars>>

\* (mutation of PersistCookies: the jar is written whatever the result)
PersistCookiesAlways(t) ==
    /\ ver[t].pc = "persist"
    /\ \E ok \in BOOLEAN :
          /\ saved' = IF ~ok THEN saved
                      ELSE Some(snapshot_codeforces_cookies(cookies))
          /\ ver' = [ver EXCEPT ![t].pc = "store", ![t].persisted = ok]
    /\ UNCHANGED <<authState, emitted, cookies, authWin, started, writer, lastStatus, subVars, auxVars>>

\* refresh_codeforces_auth_state: save_codeforces_cookies or
\* clear_saved_codeforces_cookies; a failure of either is ignored
\* (persisted is the history of it)
PersistCookies(t) ==
    /\ ver[t].pc = "persist"
    /\ \E ok \in BOOLEAN :
          /\ saved' = IF ~ok THEN saved
                      ELSE IF Unwrap(ver[t].status).val.connected
                      THEN Some(snapshot_codeforces_cookies(cookies))
                      ELSE None
          /\ ver' = [ver EXCEPT ![t].pc = "store", ![t].persisted = ok]
    /\ UNCHANGED <<authState, emitted, cookies, authWin, started, writer, lastStatus, subVars, auxVars>>

\* refresh_codeforces_auth_state returns Ok(status), the result of its own
\* verification, and cf_get_auth_status hands it to its caller
RefreshReturnsStored(t) == Ok(authState)
RefreshReturn(t) == Unwrap(ver[t].status)

\* set_codeforces_auth_state of refresh_codeforces_auth_state and of
\* cf_logout: the store under the lock
Store(t) ==
    /\ ver[t].pc = "store"
    /\ authState' = Unwrap(ver[t].status).val
    /\ ver' = Goto(t, "emit")
    /\ writer' = ver[t].seq
    /\ UNCHANGED <<emitted, cookies, saved, authWin, started, lastStatus, subVars, auxVars>>

\* set_codeforces_auth_state of refresh_codeforces_auth_state and of
\* cf_logout: the emit.  The operation is over; the scheduled refresh of a
\* connected session closes the login window on its way out.
Emit(t) ==
    /\ ver[t].pc = "emit"
    /\ emitted' = Some(Unwrap(ver[t].status).val)
    /\ authWin' = IF ver[t].kind = "scheduled" /\ Unwrap(ver[t].status).val.connected
                  THEN FALSE ELSE authWin
    /\ lastStatus' = IF ver[t].kind = "status"
                     THEN Some([ret |-> RefreshReturn(t).val, jar |-> ver[t].jar,
                                response |-> ver[t].response, upto |-> started])
                     ELSE lastStatus
    /\ ver' = [ver EXCEPT ![t] = IdleThread]
    /\ UNCHANGED <<authState, cookies, saved, started, writer, subVars, auxVars>>

\* schedule_codeforces_auth_refresh, Err arm: current_codeforces_auth_state()
ErrRead(t) ==
    /\ ver[t].pc = "e_read"
    /\ ver' = [ver EXCEPT ![t].pc = "e_store", ![t].cur = authState]
    /\ UNCHANGED <<authState, emitted, cookies, saved, authWin, started, writer, lastStatus, subVars, auxVars>>

\* schedule_codeforces_auth_refresh, Err arm: the store
ErrStore(t) ==
    /\ ver[t].pc = "e_store"
    /\ authState' = ErrorState(ver[t].cur, Unwrap(ver[t].status).val)
    /\ ver' = [ver EXCEPT ![t].pc = "e_emit",
                          ![t].cur = ErrorState(ver[t].cur, Unwrap(ver[t].status).val)]
    /\ writer' = ver[t].seq
    /\ UNCHANGED <<emitted, cookies, saved, authWin, started, lastStatus, subVars, auxVars>>

\* schedule_codeforces_auth_refresh, Err arm: the emit; the thread ends
ErrEmit(t) ==
    /\ ver[t].pc = "e_emit"
    /\ emitted' = Some(ver[t].cur)
    /\ ver' = [ver EXCEPT ![t] = IdleThread]
    /\ UNCHANGED <<authState, cookies, saved, authWin, started, writer, lastStatus, subVars, auxVars>>

\* cf_get_auth_status returns the error of refresh_codeforces_auth_state to
\* its caller; the startup thread drops it and ends
Return(t) ==
    /\ ver[t].pc = "return"
    /\ lastStatus' = IF ver[t].kind = "status" THEN None ELSE lastStatus
    /\ ver' = [ver EXCEPT ![t] = IdleThread]
    /\ UNCHANGED <<authState, emitted, cookies, saved, authWin, started, writer, subVars, auxVars>>

\* cf_logout: the cookies of the windows are deleted (a failure is
\* ignored) and the login and submission windows are closed
LogoutClear(t) ==
    /\ CanBegin(t)
    /\ started < MaxOps
    /\ started' = started + 1
    /\ \E ok \in BOOLEAN : cookies' = IF ok THEN <<>> ELSE cookies
    /\ lastStatus' = IF cookies' # cookies THEN None ELSE lastStatus
    /\ authWin' = FALSE
    /\ subWin' = NoWindow
    /\ ver' = [ver EXCEPT ![t] = [IdleThread EXCEPT !.pc = "l_file", !.kind = "logout",
                                                    !.seq = started + 1]]
    /\ UNCHANGED <<authState, emitted, saved, writer, att, challenged, auxVars>>

\* cf_logout: clear_saved_codeforces_cookies(&app)?  On failure the
\* command returns the error.
LogoutFile(t) ==
    /\ ver[t].pc = "l_file"
    /\ \E ok \in BOOLEAN :
          IF ok
          THEN /\ saved' = None
               /\ ver' = [ver EXCEPT ![t].pc = "store", ![t].status = Some(Ok(signed_out))]
          ELSE /\ saved' = saved
               /\ ver' = [ver EXCEPT ![t].pc = "return",
                                     ![t].status = Some(Err(MsgRemoveSaved))]
    /\ UNCHANGED <<authState, emitted, cookies, authWin, started, writer, lastStatus, subVars, auxVars>>

\* the user signs in in the login window: the site sets its cookies
BrowserLogin ==
    /\ authWin
    /\ cookies = <<>>
    /\ \E jar \in CookieJars \ {<<>>} : cookies' = jar
    /\ lastStatus' = None
    /\ UNCHANGED <<authState, emitted, saved, authWin, ver, started, writer, subVars, auxVars>>

\* main(): the saved jar, when there is one, is restored into the main
\* window, and the startup thread is spawned
AuthInit ==
    /\ authState = signed_out
    /\ emitted = None
    /\ saved \in {None, Some(<<Cookie("JSESSIONID", "s1")>>)}
    /\ cookies = IF IsSome(saved) THEN Unwrap(saved) ELSE <<>>
    /\ authWin = FALSE
    /\ started = 1
    /\ writer = 0
    /\ lastStatus = None
    /\ ver = [t \in Threads |->
                IF t = 1 THEN [IdleThread EXCEPT !.pc = "startup", !.kind = "startup",
                                                 !.seq = 1]
                ELSE IdleThread]
    /\ subWin = NoWindow
    /\ att = [a \in Attempts |-> IdleAttempt]
    /\ challenged = {}
    /\ fetch = IdleFetch
    /\ poll = IdlePoll
    /\ form = IdleForm
    /\ locks = IdleLocks
    /\ proc = IdleRun
    /\ install = IdleInstall

AuthNext ==
    \/ BrowserLogin
    \/ \E t \in Threads : StartupVerify(t)
    \/ \E t \in Threads : StartStatus(t)
    \/ \E t \in Threads : StartOpenAuthWindow(t)
    \/ \E t \in Threads : NavCallback(t)
    \/ \E t \in Threads : NavEmit(t)
    \/ \E t \in Threads : SchedRead(t)
    \/ \E t \in Threads : SchedStore(t)
    \/ \E t \in Threads : SchedEmit(t)
    \/ \E t \in Threads : ScheduledVerify(t)
    \/ \E t \in Threads : PersistCookies(t)
    \/ \E t \in Threads : Store(t)
    \/ \E t \in Threads : Emit(t)
    \/ \E t \in Threads : ErrRead(t)
    \/ \E t \in Threads : ErrStore(t)
    \/ \E t \in Threads : ErrEmit(t)
    \/ \E t \in Threads : Return(t)
    \/ \E t \in Threads : LogoutClear(t)
    \/ \E t \in Threads : LogoutFile(t)

AuthSpec == AuthInit /\ [][AuthNext]_vars

(* ------------------------ cf_get_submission_status --------------------- *)
\* An entry of the "result" array of user.status is a record of the fields
\* the code reads; a field is None when the JSON value is missing or is
\* not of the type the accessor asks for (as_u64, as_str).
MsgNoHandle == "Codeforces handle is not available yet. Please log in again."
MsgUnexpectedPayload == "Codeforces submission status API returned an unexpected payload"
MsgApiFetchFailed == "failed to fetch Codeforces API after 3 reqwest attempts"
MsgWaiting == "Waiting for Codeforces to register the submission..."

SlackSeconds == 7200
DiagnosticLimit == 3

\* Option<u64>::unwrap_or_default
unwrap_or_default(o) == IF IsSome(o) THEN Unwrap(o) ELSE 0

\* u64::saturating_sub
saturating_sub(a, b) == IF a >= b THEN a - b ELSE 0

\* entry["id"].as_u64() == Some(submission_id)
MatchesId(entry, submission_id) == entry.id = Some(submission_id)

\* the contest and problem index conjuncts of the heuristic match
SameProblem(entry, contest_id, index) ==
    /\ entry.contestId = Some(contest_id)
    /\ entry.index = Some(index)

\* (mutation of in_slack_window: the edge of the window is left out)
in_slack_window_strict(entry, submitted_after) ==
    unwrap_or_default(entry.creationTimeSeconds) > saturating_sub(submitted_after, SlackSeconds)

\* the creation time conjunct of the heuristic match
in_slack_window(entry, submitted_after) ==
    unwrap_or_default(entry.creationTimeSeconds) >= saturating_sub(submitted_after, SlackSeconds)

\* (mutation of MatchingPositions: the id match also asks for the problem)
MatchingPositionsSameProblem(entries, contest_id, index, submission_id, submitted_after) ==
    IF IsSome(submission_id)
    THEN {i \in DOMAIN entries :
            /\ MatchesId(entries[i], Unwrap(submission_id))
            /\ SameProblem(entries[i], contest_id, index)}
    ELSE {i \in DOMAIN entries :
            /\ SameProblem(entries[i], contest_id, index)
            /\ in_slack_window(entries[i], submitted_after)}

\* the positions of the entries the closure of find accepts
MatchingPositions(entries, contest_id, index, submission_id, submitted_after) ==
    IF IsSome(submission_id)
    THEN {i \in DOMAIN entries : MatchesId(entries[i], Unwrap(submission_id))}
    ELSE {i \in DOMAIN entries :
            /\ SameProblem(entries[i], contest_id, index)
            /\ in_slack_window(entries[i], submitted_after)}

\* (mutation of first_accepted: the last accepted entry)
last_accepted(entries, I) ==
    IF I = {} THEN None ELSE Some(entries[CHOOSE i \in I : \A j \in I : j <= i])

\* Iterator::find: the first accepted entry in the order of the array
first_accepted(entries, I) ==
    IF I = {} THEN None ELSE Some(entries[CHOOSE i \in I : \A j \in I : i <= j])

\* Iterator::take
Take(s, n) == SubSeq(s, 1, IF Len(s) < n THEN Len(s) ELSE n)

\* format!("#{} {} {}", id, time, verdict or PENDING)
CandidateLine(entry) ==
    <<"#">> \o Dec(unwrap_or_default(entry.id)) \o <<" ">>
        \o Dec(unwrap_or_default(entry.creationTimeSeconds)) \o <<" ">>
        \o <<IF IsSome(entry.verdict) THEN Unwrap(entry.verdict) ELSE "PENDING">>

\* the entries of the requested problem
SameProblemEntries(entries, contest_id, index) ==
    SelectSeq(entries, LAMBDA e : SameProblem(e, contest_id, index))

\* (mutation of recent_candidates: no take)
recent_candidates_untruncated(entries, contest_id, index) ==
    LET kept == SameProblemEntries(entries, contest_id, index)
    IN  [i \in DOMAIN kept |-> CandidateLine(kept[i])]

\* recent_candidates: filter, take(3), map, collect
recent_candidates(entries, contest_id, index) ==
    LET kept == Take(SameProblemEntries(entries, contest_id, index), DiagnosticLimit)
    IN  [i \in DOMAIN kept |-> CandidateLine(kept[i])]

\* Vec<String>::join(" | ")
RECURSIVE JoinLines(_)
JoinLines(ls) ==
    IF ls = <<>> THEN <<>>
    ELSE IF Len(ls) = 1 THEN ls[1]
    ELSE ls[1] \o <<" | ">> \o JoinLines(Tail(ls))

\* the text after "recent=" of the debug field
RecentText(ls) == IF ls = <<>> THEN <<"none">> ELSE JoinLines(ls)

\* (mutation of is_finished: any verdict finishes)
is_finished_when_present(verdict) == IsSome(verdict)

\* finished: the verdict is present and is not "TESTING"
is_finished(verdict) == IsSome(verdict) /\ Unwrap(verdict) # "TESTING"

\* the optional " after N tests" / " passed N tests" of status_text
TestsSuffix(word, passed_test_count) ==
    IF IsSome(passed_test_count)
    THEN <<word>> \o Dec(Unwrap(passed_test_count)) \o <<" tests">>
    ELSE <<>>

StatusText(verdict, passed_test_count) ==
    IF verdict = None THEN <<"Submission is in queue on Codeforces...">>
    ELSE IF Unwrap(verdict) = "OK"
    THEN <<"Accepted on Codeforces">> \o TestsSuffix(" after ", passed_test_count) \o <<".">>
    ELSE IF Unwrap(verdict) = "TESTING"
    THEN <<"Testing on Codeforces">> \o TestsSuffix(" passed ", passed_test_count) \o <<"...">>
    ELSE <<Unwrap(verdict), " on Codeforces">> \o TestsSuffix(" after ", passed_test_count)
            \o <<".">>

\* the record returned when no entry matched
NotFoundStatus(handle, entries, contest_id, index, submission_id, submitted_after) ==
    [found |-> FALSE, id |-> None, verdict |-> None, passed_test_count |-> None,
     programming_language |-> None, status_text |-> <<MsgWaiting>>, finished |-> FALSE,
     debug |-> Some([handle |-> handle, contest |-> contest_id, index |-> index,
                     submission_id |-> submission_id, submitted_after |-> submitted_after,
                     recent |-> RecentText(recent_candidates(entries, contest_id, index))])]

\* the record returned for the matched entry
FoundStatus(entry) ==
    [found |-> TRUE, id |-> entry.id, verdict |-> entry.verdict,
     passed_test_count |-> entry.passedTestCount,
     programming_language |-> entry.programmingLanguage,
     status_text |-> StatusText(entry.verdict, entry.passedTestCount),
     finished |-> is_finished(entry.verdict), debug |-> None]

\* cf_get_submission_status after the fetch: data is what
\* fetch_codeforces_api_json returned
StatusFromData(handle, contest_id, index, submission_id, submitted_after, data) ==
    IF data.tag = "Err" THEN data
    ELSE IF data.val.result = None THEN Err(MsgUnexpectedPayload)
    ELSE LET entries == Unwrap(data.val.result)
             matched == first_accepted(entries,
                            MatchingPositions(entries, contest_id, index,
                                              submission_id, submitted_after))
         IN  IF matched = None
             THEN Ok(NotFoundStatus(handle, entries, contest_id, index,
                                    submission_id, submitted_after))
             ELSE Ok(FoundStatus(Unwrap(matched)))

\* the entries user.status can list
Entry(id, contest_id, index, time, verdict, passed) ==
    [id |-> Some(id), contestId |-> Some(contest_id), index |-> Some(index),
     creationTimeSeconds |-> time, verdict |-> verdict, passedTestCount |-> passed,
     programmingLanguage |-> Some("C++20")]

PollContest == 10
PollIndex == "A"
PollTimes == {900, 10000, 50000}
PollSubmissionIds == <<None, Some(1), Some(5), Some(9)>>

\* With submitted_after = 10000 the window begins at 2800: entry 1 is on the
\* edge, entry 2 one second older, entry 3 recent, entry 4 has no creation
\* time; entries 5 and 6 are of another contest and of another problem.
EntryPool ==
    <<Entry(1, 10, "A", Some(2800), Some("OK"), Some(12)),
      Entry(2, 10, "A", Some(2799), Some("TESTING"), Some(3)),
      Entry(3, 10, "A", Some(10050), None, None),
      Entry(4, 10, "A", None, Some("WRONG_ANSWER"), Some(0)),
      Entry(5, 11, "A", Some(10050), Some("OK"), Some(7)),
      Entry(6, 10, "B", Some(10050), Some("OK"), None)>>

EntryLists ==
    UNION {[1..n -> {EntryPool[i] : i \in DOMAIN EntryPool}] : n \in 0..MaxEntries}

\* (mutation of PollCall: without a handle the request is made for an
\* empty handle and its failure is returned)
PollCallFetchesAnyway ==
    /\ poll.pc = "idle"
    /\ \E k \in DOMAIN PollSubmissionIds, sa \in PollTimes :
          poll' = [IdlePoll EXCEPT
                     !.pc = IF IsSome(authState.handle) THEN "fetching" ELSE "done",
                     !.submission_id = PollSubmissionIds[k],
                     !.submitted_after = sa,
                     !.data = IF IsSome(authState.handle) THEN None
                              ELSE Some(Err(MsgApiFetchFailed)),
                     !.ret = IF IsSome(authState.handle) THEN None
                             ELSE Some(Err(MsgApiFetchFailed))]
    /\ UNCHANGED <<sessVars, subVars, sysVars, fetch, form>>

\* cf_get_submission_status up to the fetch: the handle of the stored
\* state is read; without one the command returns the error
PollCall ==
    /\ poll.pc = "idle"
    /\ \E k \in DOMAIN PollSubmissionIds, sa \in PollTimes :
          poll' = [IdlePoll EXCEPT
                     !.pc = IF IsSome(authState.handle) THEN "fetching" ELSE "done",
                     !.submission_id = PollSubmissionIds[k],
                     !.submitted_after = sa,
                     !.ret = IF IsSome(authState.handle) THEN None
                             ELSE Some(Err(MsgNoHandle))]
    /\ UNCHANGED <<sessVars, subVars, sysVars, fetch, form>>

\* fetch_codeforces_api_json fails
PollFetchFailed ==
    /\ poll.pc = "fetching"
    /\ poll' = [poll EXCEPT
                  !.pc = "done",
                  !.data = Some(Err(MsgApiFetchFailed)),
                  !.ret = Some(StatusFromData(Unwrap(authState.handle), PollContest, PollIndex,
                                              poll.submission_id, poll.submitted_after,
                                              Err(MsgApiFetchFailed)))]
    /\ UNCHANGED <<sessVars, subVars, sysVars, fetch, form>>

\* fetch_codeforces_api_json returns a document: "result" is an array of
\* entries, or is not an array
PollFetched ==
    /\ poll.pc = "fetching"
    /\ \E result \in {None} \cup {Some(es) : es \in EntryLists} :
          LET data == Ok([status |-> "OK", result |-> result])
          IN  poll' = [poll EXCEPT
                  !.pc = "done",
                  !.data = Some(data),
                  !.ret = Some(StatusFromData(Unwrap(authState.handle), PollContest,
                                              PollIndex, poll.submission_id,
                                              poll.submitted_after, data))]
    /\ UNCHANGED <<sessVars, subVars, sysVars, fetch, form>>

\* the command has returned; the caller may poll again
PollReturn ==
    /\ poll.pc = "done"
    /\ poll' = IdlePoll
    /\ UNCHANGED <<sessVars, subVars, sysVars, fetch, form>>

PollInit ==
    /\ authState \in {signed_out,
                      ClassifyProfileResponse(SettingsUrl, BodyWithHandle),
                      ClassifyProfileResponse(SettingsUrl, BodyPlain)}
    /\ emitted = None
    /\ cookies = <<>>
    /\ saved = None
    /\ authWin = FALSE
    /\ ver = [t \in Threads |-> IdleThread]
    /\ started = 0
    /\ writer = 0
    /\ lastStatus = None
    /\ subWin = NoWindow
    /\ att = [a \in Attempts |-> IdleAttempt]
    /\ challenged = {}
    /\ fetch = IdleFetch
    /\ poll = IdlePoll
    /\ form = IdleForm
    /\ locks = IdleLocks
    /\ proc = IdleRun
    /\ install = IdleInstall

PollNext ==
    \/ PollCall
    \/ PollFetchFailed
    \/ PollFetched
    \/ PollReturn

PollSpec == PollInit /\ [][PollNext]_vars

(* ---------- fetch_codeforces_html and fetch_codeforces_api_json --------- *)
\* A response body is a document: JSON or not, with the "status" member
\* of the JSON object when it has one.
HtmlDoc == [is_json |-> FALSE, status |-> None]
ApiOkDoc == [is_json |-> TRUE, status |-> Some("OK")]
ApiFailedDoc == [is_json |-> TRUE, status |-> Some("FAILED")]

\* what one request of the client can give: an error of send, of
\* error_for_status or of text, or a body
PrimaryOutcomes ==
    <<[error |-> "request failed", doc |-> HtmlDoc],
      [error |-> "http error", doc |-> HtmlDoc],
      [error |-> "failed to read response body", doc |-> HtmlDoc],
      [error |-> "", doc |-> HtmlDoc],
      [error |-> "", doc |-> ApiOkDoc],
      [error |-> "", doc |-> ApiFailedDoc]>>

\* what the curl process can give: an error of the blocking job, of the spawn, a
\* failure status, a body that is not UTF-8, or a body
CurlOutcomes ==
    <<[error |-> "curl task failed", doc |-> HtmlDoc],
      [error |-> "curl spawn failed", doc |-> HtmlDoc],
      [error |-> "curl fallback failed with status", doc |-> HtmlDoc],
      [error |-> "curl returned non-utf8 body", doc |-> HtmlDoc],
      [error |-> "", doc |-> HtmlDoc],
      [error |-> "", doc |-> ApiOkDoc],
      [error |-> "", doc |-> ApiFailedDoc]>>

PrimaryAttempts == 3

\* serde_json::from_str::<serde_json::Value>: the value, or a parse error
from_str(doc) ==
    IF doc.is_json THEN Ok([status |-> doc.status]) ELSE Err("expected value")

\* format!("attempt {attempt}: ...")
AttemptError(attempt, text) == <<"attempt ">> \o Dec(attempt) \o <<": ", text>>

\* the body of the loop after the request: Ok(value) when the function
\* returns from inside the loop, Err(last_error) when the attempt failed
PrimaryResult(kind, attempt, outcome) ==
    IF outcome.error # "" THEN Err(AttemptError(attempt, outcome.error))
    ELSE IF kind = "html" THEN Ok(outcome.doc)
    ELSE LET json == from_str(outcome.doc)
         IN  IF json.tag = "Err" THEN Err(AttemptError(attempt, "failed to parse json"))
             ELSE IF json.val.status = Some("OK") THEN json
             ELSE Err(AttemptError(attempt, "Codeforces API status was not OK"))

\* (mutation of after_failed_attempt: the loop gives up one attempt early)
after_failed_attempt_short(attempt) == IF attempt < PrimaryAttempts - 1 THEN "send" ELSE "fallback"
\* for attempt in 1..=3: where the loop goes after the sleep of an attempt
\* that failed
after_failed_attempt(attempt) == IF attempt < PrimaryAttempts THEN "send" ELSE "fallback"

PriorError(kind, last_error) ==
    <<IF kind = "html"
      THEN "failed to fetch Codeforces problem page after 3 reqwest attempts: "
      ELSE "failed to fetch Codeforces API after 3 reqwest attempts: ">> \o last_error

\* (mutation of FallbackResult: what curl obtained is not used)
FallbackResultDiscarded(kind, last_error, outcome) ==
    Err(PriorError(kind, last_error) \o <<"; ", outcome.error>>)

\* curl_fetch_text and what the caller makes of the text
FallbackResult(kind, last_error, outcome) ==
    IF outcome.error # "" THEN Err(PriorError(kind, last_error) \o <<"; ", outcome.error>>)
    ELSE IF kind = "html" THEN Ok(outcome.doc)
    ELSE LET json == from_str(outcome.doc)
         IN  IF json.tag = "Err" THEN Err(<<"curl fallback returned invalid json">>)
             ELSE json

\* a caller starts the fetch: last_error is empty, the loop begins
FetchCall ==
    /\ fetch.pc = "idle"
    /\ fetch.n < MaxFetches
    /\ \E kind \in {"html", "api"} :
          fetch' = [IdleFetch EXCEPT !.pc = "send", !.kind = kind, !.attempt = 1,
                                     !.last_error = <<>>, !.n = fetch.n + 1]
    /\ UNCHANGED <<sessVars, subVars, sysVars, poll, form>>

\* client.get(url)...send(): the request of this attempt goes out
PrimarySend ==
    /\ fetch.pc = "send"
    /\ fetch' = [fetch EXCEPT !.pc = "wait", !.primaries = @ + 1]
    /\ UNCHANGED <<sessVars, subVars, sysVars, poll, form>>

\* the request is answered: the function returns the value, or records
\* the error of the attempt
PrimaryAnswer ==
    /\ fetch.pc = "wait"
    /\ \E k \in DOMAIN PrimaryOutcomes :
          LET r == PrimaryResult(fetch.kind, fetch.attempt, PrimaryOutcomes[k])
          IN  IF r.tag = "Ok"
              THEN fetch' = [fetch EXCEPT !.pc = "done", !.ret = Some(r)]
              ELSE fetch' = [fetch EXCEPT !.pc = "sleep", !.last_error = r.val,
                                          !.failures = @ + 1,
                                          !.errors = Append(@, r.val)]
    /\ UNCHANGED <<sessVars, subVars, sysVars, poll, form>>

\* thread::sleep(300 ms * attempt), then the next attempt or, after the
\* last one, the fallback
AttemptSleep ==
    /\ fetch.pc = "sleep"
    /\ fetch' = [fetch EXCEPT
                   !.pc = after_failed_attempt(fetch.attempt),
                   !.attempt = IF after_failed_attempt(fetch.attempt) = "send"
                               THEN @ + 1 ELSE @]
    /\ UNCHANGED <<sessVars, subVars, sysVars, poll, form>>

\* curl_fetch_text: the curl process is started
FallbackSend ==
    /\ fetch.pc = "fallback"
    /\ fetch' = [fetch EXCEPT !.pc = "curl", !.fallbacks = @ + 1]
    /\ UNCHANGED <<sessVars, subVars, sysVars, poll, form>>

\* curl ends (--max-time 15) and the function returns
FallbackAnswer ==
    /\ fetch.pc = "curl"
    /\ \E k \in DOMAIN CurlOutcomes :
          fetch' = [fetch EXCEPT
                      !.pc = "done",
                      !.got = Some(CurlOutcomes[k]),
                      !.ret = Some(FallbackResult(fetch.kind, fetch.last_error,
                                                  CurlOutcomes[k]))]
    /\ UNCHANGED <<sessVars, subVars, sysVars, poll, form>>

\* the caller has the result
FetchReturn ==
    /\ fetch.pc = "done"
    /\ fetch' = [IdleFetch EXCEPT !.n = fetch.n]
    /\ UNCHANGED <<sessVars, subVars, sysVars, poll, form>>

FetchInit ==
    /\ authState = signed_out
    /\ emitted = None
    /\ cookies = <<>>
    /\ saved = None
    /\ authWin = FALSE
    /\ ver = [t \in Threads |-> IdleThread]
    /\ started = 0
    /\ writer = 0
    /\ lastStatus = None
    /\ subWin = NoWindow
    /\ att = [a \in Attempts |-> IdleAttempt]
    /\ challenged = {}
    /\ fetch = IdleFetch
    /\ poll = IdlePoll
    /\ form = IdleForm
    /\ locks = IdleLocks
    /\ proc = IdleRun
    /\ install = IdleInstall

\* a step of the call that is running
FetchStep ==
    \/ PrimarySend
    \/ PrimaryAnswer
    \/ AttemptSleep
    \/ FallbackSend
    \/ FallbackAnswer
    \/ FetchReturn

FetchNext ==
    \/ FetchCall
    \/ PrimarySend
    \/ PrimaryAnswer
    \/ AttemptSleep
    \/ FallbackSend
    \/ FallbackAnswer
    \/ FetchReturn

FetchSpec == FetchInit /\ [][FetchNext]_vars

\* the client's requests time out, sleeps end and curl runs with
\* --max-time: a running call always takes its next step
FetchLiveSpec == FetchSpec /\ WF_vars(FetchStep)

(* ----------------------- the submit form functions --------------------- *)
\* A compiler label is a sequence of tokens in which a compiler name the
\* code looks for ("GNU G++17") is one token.  An option of the select is
\* [value, label].

\* codeforces_language_needles: the names given to the injected script
codeforces_language_needles(lang) ==
    IF lang = "cpp" THEN <<"GNU G++23", "GNU G++20", "GNU G++17", "GNU C++17", "GNU G++14">>
    ELSE IF lang = "py" THEN <<"Python 3", "PyPy 3">>
    ELSE IF lang = "js" THEN <<"Node.js", "JavaScript">>
    ELSE <<>>

\* preferences of select_program_type_id
Preferences(lang) ==
    IF lang = "cpp" THEN <<"GNU G++23", "GNU G++20", "GNU G++17", "GNU C++17", "GNU G++14">>
    ELSE IF lang = "py" THEN <<"Python 3", "PyPy 3">>
    ELSE IF lang = "js" THEN <<"Node.js", "JavaScript">>
    ELSE <<>>

\* options.iter().find(|(_, label)| label.contains(needle))
FirstOptionWith(options, needle) ==
    LET hits == {i \in DOMAIN options : Contains(options[i].label, <<needle>>)}
    IN  IF hits = {} THEN None
        ELSE Some(options[CHOOSE i \in hits : \A j \in hits : i <= j])

\* the loop of select_program_type_id over the preferences
RECURSIVE SelectByPreference(_, _)
SelectByPreference(options, preferences) ==
    IF preferences = <<>> THEN None
    ELSE LET found == FirstOptionWith(options, Head(preferences))
         IN  IF IsSome(found) THEN Some(Unwrap(found).value)
             ELSE SelectByPreference(options, Tail(preferences))

select_program_type_id(options, lang) == SelectByPreference(options, Preferences(lang))

\* the injected script: compilerOption is the first option of the select
\* whose text includes some needle; its value is given to the select
ScriptCompilerOption(options, needles) ==
    LET hits == {i \in DOMAIN options :
                    \E k \in DOMAIN needles : Contains(options[i].label, <<needles[k]>>)}
    IN  IF hits = {} THEN None
        ELSE Some(options[CHOOSE i \in hits : \A j \in hits : i <= j].value)

Option(value, label) == [value |-> value, label |-> label]

Languages == {"cpp", "py", "js", "go"}

OptionPool ==
    <<Option(<<"54">>, <<"GNU G++17", " ", "7.3.0">>),
      Option(<<"89">>, <<"GNU G++20", " ", "13.2">>),
      Option(<<"50">>, <<"GNU G++14", " ", "6.4.0">>),
      Option(<<"7">>, <<"GNU C++11">>),
      Option(<<"31">>, <<"Python 3", ".8.10">>),
      Option(<<"70">>, <<"PyPy 3", ".10">>)>>

OptionLists ==
    UNION {[1..n -> {OptionPool[i] : i \in DOMAIN OptionPool}] : n \in 0..MaxOptions}

\* the compiler is chosen for a language and the options of the page, by
\* select_program_type_id and by the injected script
SelectCompiler ==
    /\ form.op = "none"
    /\ \E lang \in Languages, options \in OptionLists :
          form' = [IdleForm EXCEPT
                     !.op = "select", !.lang = lang, !.options = options,
                     !.host = select_program_type_id(options, lang),
                     !.script = ScriptCompilerOption(options,
                                                     codeforces_language_needles(lang))]
    /\ UNCHANGED <<sessVars, subVars, sysVars, fetch, poll>>

\* A page is its forms and its text.  A form is its input[name] elements,
\* [name, value] with the value attribute an Option, and the options of
\* its select[name='programTypeId'], [value, text] with the value attribute
\* an Option.  In the text a variable name, "window.", "var ", " = ", "=",
\* a quote and a decimal digit are one token each.
MsgNoForm == "Codeforces submit form was not found"
MsgNoCsrf == "Codeforces csrf token was not found"

\* attr("value").unwrap_or_default()
attr_or_default(o) == IF IsSome(o) THEN Unwrap(o) ELSE <<>>

\* chars().take_while(|ch| *ch != quote)
RECURSIVE TakeWhileNot(_, _)
TakeWhileNot(s, quote) ==
    IF s = <<>> \/ Head(s) = quote THEN <<>>
    ELSE <<Head(s)>> \o TakeWhileNot(Tail(s), quote)

\* the text after the first occurrence of the pattern, None without one
AfterPattern(html, pattern) ==
    LET found_at == Find(html, pattern)
    IN  IF found_at = None THEN None
        ELSE Some(SubSeq(html, Unwrap(found_at) + Len(pattern), Len(html)))

StringPatterns(var_name) ==
    <<<<"window.", var_name, " = ", "\"">>, <<"window.", var_name, "=", "'">>,
      <<"var ", var_name, " = ", "\"">>, <<"var ", var_name, "=", "'">>,
      <<var_name, " = ", "\"">>, <<var_name, "=", "'">>>>

NumberPatterns(var_name) ==
    <<<<"window.", var_name, " = ">>, <<"var ", var_name, " = ">>, <<var_name, " = ">>>>

\* the loop of extract_js_string_value over its patterns
RECURSIVE StringValueFrom(_, _)
StringValueFrom(html, patterns) ==
    IF patterns = <<>> THEN None
    ELSE LET pattern == Head(patterns)
             rest == AfterPattern(html, pattern)
             value == IF rest = None THEN <<>>
                      ELSE TakeWhileNot(Unwrap(rest), pattern[Len(pattern)])
         IN  IF value # <<>> THEN Some(value) ELSE StringValueFrom(html, Tail(patterns))

extract_js_string_value(html, var_name) == StringValueFrom(html, StringPatterns(var_name))

\* the loop of extract_js_number_value over its patterns
RECURSIVE NumberValueFrom(_, _)
NumberValueFrom(html, patterns) ==
    IF patterns = <<>> THEN None
    ELSE LET rest == AfterPattern(html, Head(patterns))
             value == IF rest = None THEN <<>>
                      ELSE TakeWhileDigit(TrimStart(Unwrap(rest)))
         IN  IF value # <<>> THEN Some(value) ELSE NumberValueFrom(html, Tail(patterns))

extract_js_number_value(html, var_name) == NumberValueFrom(html, NumberPatterns(var_name))

\* hidden_field_value: the value of the first field of that name
hidden_field_value(fields, name) ==
    LET hits == {i \in DOMAIN fields : fields[i].name = name}
    IN  IF hits = {} THEN None
        ELSE Some(fields[CHOOSE i \in hits : \A j \in hits : i <= j].value)

\* Option::or_else
or_else(o, other) == IF IsSome(o) THEN o ELSE other

\* the form the page is parsed from: the first with a csrf_token input
\* and an option of the compiler select
IsSubmitForm(f) ==
    /\ \E i \in DOMAIN f.inputs : f.inputs[i].name = "csrf_token"
    /\ f.options # <<>>

\* language_options: the options with a non-empty trimmed value
RECURSIVE LanguageOptions(_)
LanguageOptions(options) ==
    IF options = <<>> THEN <<>>
    ELSE LET o == Head(options)
             value == IF IsSome(o.value) THEN Trim(Unwrap(o.value)) ELSE <<>>
         IN  (IF value = <<>> THEN <<>> ELSE <<Option(value, Trim(o.text))>>)
                \o LanguageOptions(Tail(options))

parse_submit_form_page(page) ==
    LET forms == {i \in DOMAIN page.forms : IsSubmitForm(page.forms[i])}
    IN  IF forms = {} THEN Err(MsgNoForm)
        ELSE LET f == page.forms[CHOOSE i \in forms : \A j \in forms : i <= j]
                 hidden_fields == [i \in DOMAIN f.inputs |->
                                     [name |-> f.inputs[i].name,
                                      value |-> attr_or_default(f.inputs[i].value)]]
                 tokens == {i \in DOMAIN hidden_fields : hidden_fields[i].name = "csrf_token"}
             IN  IF tokens = {} THEN Err(MsgNoCsrf)
                 ELSE Ok([csrf_token |->
                             hidden_fields[CHOOSE i \in tokens : \A j \in tokens : j <= i].value,
                          hidden_fields |-> hidden_fields,
                          language_options |-> LanguageOptions(f.options),
                          ftaa |-> or_else(hidden_field_value(hidden_fields, "ftaa"),
                                           extract_js_string_value(page.html, "_ftaa")),
                          bfaa |-> or_else(hidden_field_value(hidden_fields, "bfaa"),
                                           extract_js_string_value(page.html, "_bfaa")),
                          tta |-> or_else(hidden_field_value(hidden_fields, "_tta"),
                                          extract_js_number_value(page.html, "_tta"))])

Input(name, value) == [name |-> name, value |-> value]

\* how a page holds a hidden field: not at all, with an empty value, or
\* with the value given
FieldShapes == {"missing", "empty", "set"}
FieldInputs(name, shape, value) ==
    IF shape = "missing" THEN <<>>
    ELSE <<Input(name, IF shape = "empty" THEN Some(<<>>) ELSE Some(value))>>

ScriptText ==
    <<"window.", "_ftaa", " = ", "\"", "f7k2", "\"", ";",
      "window.", "_bfaa", " = ", "\"", "b9q4", "\"", ";",
      "var ", "_tta", " = ", "3", "7", "7", ";">>

SubmitOptions ==
    <<[value |-> Some(<<"54">>), text |-> <<" ", "GNU G++17", " ", "7.3.0", " ">>],
      [value |-> None, text |-> <<"GNU G++20">>]>>

SearchForm == [inputs |-> <<Input("query", None)>>, options |-> <<>>]

\* the submit page: a search form, then the submit form with its hidden
\* fields; the inline script defines the three variables or is absent
SubmitPage(ftaa, bfaa, tta, scripted) ==
    [forms |-> <<SearchForm,
                 [inputs |-> <<Input("csrf_token", Some(<<"c0ffee">>))>>
                                \o FieldInputs("ftaa", ftaa, <<"hf1">>)
                                \o FieldInputs("bfaa", bfaa, <<"hb1">>)
                                \o FieldInputs("_tta", tta, <<"1", "2", "3">>),
                  options |-> SubmitOptions]>>,
     html |-> IF scripted THEN ScriptText ELSE <<>>]

\* a page without the submit form
OtherPage == [forms |-> <<SearchForm>>, html |-> ScriptText]

\* parse_submit_form_page is applied to a page
ParsePage ==
    /\ form.op = "none"
    /\ \E page \in {OtherPage} \cup
                   {SubmitPage(a, b, c, d) : a, b, c \in FieldShapes, d \in BOOLEAN} :
          form' = [IdleForm EXCEPT !.op = "parse", !.page = Some(page),
                                   !.parsed = Some(parse_submit_form_page(page))]
    /\ UNCHANGED <<sessVars, subVars, sysVars, fetch, poll>>

\* the result has been used
FormReturn ==
    /\ form.op # "none"
    /\ form' = IdleForm
    /\ UNCHANGED <<sessVars, subVars, sysVars, fetch, poll>>

FormInit ==
    /\ authState = signed_out
    /\ emitted = None
    /\ cookies = <<>>
    /\ saved = None
    /\ authWin = FALSE
    /\ ver = [t \in Threads |-> IdleThread]
    /\ started = 0
    /\ writer = 0
    /\ lastStatus = None
    /\ subWin = NoWindow
    /\ att = [a \in Attempts |-> IdleAttempt]
    /\ challenged = {}
    /\ fetch = IdleFetch
    /\ poll = IdlePoll
    /\ form = IdleForm
    /\ locks = IdleLocks
    /\ proc = IdleRun
    /\ install = IdleInstall

FormNext ==
    \/ SelectCompiler
    \/ ParsePage
    \/ FormReturn

FormSpec == FormInit /\ [][FormNext]_vars

(* ===================== the mutex of the session state ================== *)
\* Every operation that touches CODEFORCES_AUTH_STATE, written as the
\* instructions its thread runs in order.  "lock" and "unlock" are the
\* acquisition of the mutex and the drop of its guard; "send" puts an HTTP
\* request in flight and "recv" is its answer; the other instructions are
\* local work, file and webview calls.

\* every operation is idle and every file, window and history is empty
Quiet ==
    /\ authState = signed_out
    /\ emitted = None
    /\ cookies = <<>>
    /\ saved = None
    /\ authWin = FALSE
    /\ ver = [t \in Threads |-> IdleThread]
    /\ started = 0
    /\ writer = 0
    /\ lastStatus = None
    /\ subWin = NoWindow
    /\ att = [a \in Attempts |-> IdleAttempt]
    /\ challenged = {}
    /\ fetch = IdleFetch
    /\ poll = IdlePoll
    /\ form = IdleForm

\* with_codeforces_auth_state(f): lock, run the closure, drop the guard
with_codeforces_auth_state(f) == <<"lock">> \o f \o <<"unlock">>

\* current_codeforces_auth_state: the closure clones the record
current_codeforces_auth_state == with_codeforces_auth_state(<<"clone">>)

\* set_codeforces_auth_state: the closure assigns, then the emit
set_state_steps == with_codeforces_auth_state(<<"assign">>) \o <<"emit">>

\* verify_codeforces_auth: the cookies of the webview, the profile request,
\* the body, the classification
verify_steps == <<"cookies", "send", "recv", "classify">>

\* verify_codeforces_auth when the request or the read of the body fails
verify_failed_steps == <<"cookies", "send", "recv">>

\* (mutation of refresh_steps: the verification and the file operation
\* run inside the closure that holds the mutex)
refresh_steps_under_lock ==
    with_codeforces_auth_state(verify_steps \o <<"file", "assign">>) \o <<"emit">>

\* refresh_codeforces_auth_state, verification completed
refresh_steps == verify_steps \o <<"file">> \o set_state_steps

\* schedule_codeforces_auth_refresh and the thread it spawns
schedule_steps(ok) ==
    current_codeforces_auth_state \o <<"edit">> \o set_state_steps \o <<"spawn">>
        \o (IF ok THEN refresh_steps \o <<"close">>
            ELSE verify_failed_steps \o current_codeforces_auth_state \o <<"build">>
                     \o set_state_steps)

\* on_navigation of the login window, for a codeforces.com URL
navigation_steps(ok) ==
    with_codeforces_auth_state(<<"assign">>)
        \o current_codeforces_auth_state \o <<"emit">> \o schedule_steps(ok)

\* cf_submit_solution up to the gate, then the webview work
submit_steps == current_codeforces_auth_state \o <<"gate", "webview">>

\* cf_get_submission_status: the handle, then the API request
poll_steps == current_codeforces_auth_state \o <<"handle", "send", "recv">>

\* cf_logout: window cookies, the saved jar, the signed-out record
logout_steps == <<"cookies", "file">> \o set_state_steps

LockOps ==
    {"status", "status_failed", "scheduled", "scheduled_failed", "navigation",
     "navigation_failed", "submit", "poll", "logout"}

Program(op) ==
    CASE op = "status" -> refresh_steps
      [] op = "status_failed" -> verify_failed_steps
      [] op = "scheduled" -> schedule_steps(TRUE)
      [] op = "scheduled_failed" -> schedule_steps(FALSE)
      [] op = "navigation" -> navigation_steps(TRUE)
      [] op = "navigation_failed" -> navigation_steps(FALSE)
      [] op = "submit" -> submit_steps
      [] op = "poll" -> poll_steps
      [] op = "logout" -> logout_steps

\* a thread begins an operation
LockBegin(t) ==
    /\ locks.th[t].op = "none"
    /\ \E op \in LockOps :
          locks' = [locks EXCEPT !.th[t] = [op |-> op, i |-> 1, inflight |-> FALSE]]
    /\ UNCHANGED <<sessVars, subVars, fetch, poll, form, proc, install>>

\* a thread runs its next instruction; Mutex::lock waits while another
\* thread holds the guard
LockStep(t) ==
    LET me == locks.th[t]
        ins == Program(me.op)[me.i]
        next == IF me.i = Len(Program(me.op)) THEN IdleLockThread
                ELSE [me EXCEPT !.i = @ + 1,
                                !.inflight = IF ins = "send" THEN TRUE
                                             ELSE IF ins = "recv" THEN FALSE ELSE @]
    IN  /\ me.op # "none"
        /\ ins = "lock" => locks.holder = 0
        /\ locks' = [locks EXCEPT
                        !.holder = IF ins = "lock" THEN t
                                   ELSE IF ins = "unlock" THEN 0 ELSE @,
                        !.th[t] = next]
        /\ UNCHANGED <<sessVars, subVars, fetch, poll, form, proc, install>>

LockInit == Quiet /\ locks = IdleLocks /\ proc = IdleRun /\ install = IdleInstall

LockNext ==
    \/ \E t \in Threads : LockBegin(t)
    \/ \E t \in Threads : LockStep(t)

LockSpec == LockInit /\ [][LockNext]_vars

(* ========================= run_process_with_input ====================== *)
\* The caller and the child it spawns, with the two pipes between them.
\* todo is what write_all has still to write, inpipe and outpipe what the
\* pipes hold; reads, out and exits are the behaviour of the child: whether
\* it reads its stdin to the end, how much it writes, whether it exits.
\* Time is counted in polls of the loop.
MsgSpawnFailed == "spawn failed"
MsgWriteStdinFailed == "write stdin failed"
MsgTryWaitFailed == "try_wait failed"
MsgTimeLimit == "Time limit exceeded (2s)"

\* render_output, and "OK\n" for an empty text (the exit status is taken
\* as success)
OutputText(bytes) == IF bytes = 0 THEN "OK" ELSE "output"

\* command.spawn(): on failure the call returns
RunCall ==
    /\ proc.pc = "idle"
    /\ \E n \in 0..MaxInput, reads \in BOOLEAN, out \in 0..MaxOutput,
          exits \in BOOLEAN, spawned \in BOOLEAN :
          proc' = IF ~spawned
                  THEN [IdleRun EXCEPT !.pc = "done", !.ret = Some(Err(MsgSpawnFailed))]
                  ELSE [IdleRun EXCEPT !.pc = "write", !.todo = n, !.stdin_open = TRUE,
                                       !.reads = reads, !.out = out, !.exits = exits,
                                       !.child = "running"]
    /\ UNCHANGED <<sessVars, subVars, fetch, poll, form, locks, install>>

\* input.write_all(stdin): one byte goes into the pipe when it has room;
\* the write fails when the child is gone; with a full pipe it waits
ParentWrite ==
    /\ proc.pc = "write"
    /\ proc.todo > 0
    /\ proc.child # "running" \/ proc.inpipe < PipeCap
    /\ proc' = IF proc.child # "running"
               THEN [proc EXCEPT !.pc = "done", !.stdin_open = FALSE,
                                 !.ret = Some(Err(MsgWriteStdinFailed))]
               ELSE [proc EXCEPT !.todo = @ - 1, !.inpipe = @ + 1]
    /\ UNCHANGED <<sessVars, subVars, fetch, poll, form, locks, install>>

\* write_all has returned, input is dropped; start = Instant::now()
ParentWriteDone ==
    /\ proc.pc = "write"
    /\ proc.todo = 0
    /\ proc' = [proc EXCEPT !.pc = "poll", !.stdin_open = FALSE, !.elapsed = 0]
    /\ UNCHANGED <<sessVars, subVars, fetch, poll, form, locks, install>>

\* one turn of the loop: child.try_wait()
TryWait ==
    /\ proc.pc = "poll"
    /\ \E failed \in BOOLEAN :
          proc' = IF failed
                  THEN [proc EXCEPT !.pc = "done", !.ret = Some(Err(MsgTryWaitFailed))]
                  ELSE IF proc.child = "exited"
                  THEN [proc EXCEPT !.pc = "done", !.outpipe = 0,
                                    !.ret = Some(Ok(OutputText(proc.outpipe)))]
                  ELSE IF proc.elapsed > TimeoutPolls
                  THEN [proc EXCEPT !.pc = "done", !.child = "killed",
                                    !.ret = Some(Err(MsgTimeLimit))]
                  ELSE [proc EXCEPT !.pc = "sleep"]
    /\ UNCHANGED <<sessVars, subVars, fetch, poll, form, locks, install>>

\* std::thread::sleep(20 ms)
PollSleep ==
    /\ proc.pc = "sleep"
    /\ proc' = [proc EXCEPT !.pc = "poll", !.elapsed = @ + 1]
    /\ UNCHANGED <<sessVars, subVars, fetch, poll, form, locks, install>>

\* the child reads a byte of its stdin
ChildRead ==
    /\ proc.child = "running"
    /\ proc.reads
    /\ proc.inpipe > 0
    /\ proc' = [proc EXCEPT !.inpipe = @ - 1]
    /\ UNCHANGED <<sessVars, subVars, fetch, poll, form, locks, install>>

\* the child writes a byte to its stdout; with a full pipe it waits, as
\* the caller reads the pipe only after the child has exited
ChildWrite ==
    /\ proc.child = "running"
    /\ proc.out > 0
    /\ proc.outpipe < PipeCap
    /\ proc' = [proc EXCEPT !.out = @ - 1, !.outpipe = @ + 1]
    /\ UNCHANGED <<sessVars, subVars, fetch, poll, form, locks, install>>

\* the child exits: it has written its output, and a child that reads has
\* seen the end of its stdin
ChildExit ==
    /\ proc.child = "running"
    /\ proc.exits
    /\ proc.out = 0
    /\ proc.reads => (proc.inpipe = 0 /\ ~proc.stdin_open)
    /\ proc' = [proc EXCEPT !.child = "exited"]
    /\ UNCHANGED <<sessVars, subVars, fetch, poll, form, locks, install>>

\* the call has returned; the next one can be made
RunReturn ==
    /\ proc.pc = "done"
    /\ proc' = IdleRun
    /\ UNCHANGED <<sessVars, subVars, fetch, poll, form, locks, install>>

RunInit == Quiet /\ locks = IdleLocks /\ proc = IdleRun /\ install = IdleInstall

\* the steps of the caller and of the child
RunStep ==
    \/ ParentWrite
    \/ ParentWriteDone
    \/ TryWait
    \/ PollSleep
    \/ ChildRead
    \/ ChildWrite
    \/ ChildExit

RunNext ==
    \/ RunCall
    \/ RunStep
    \/ RunReturn

RunSpec == RunInit /\ [][RunNext]_vars

\* the caller and the child keep running while they can
RunLiveSpec == RunSpec /\ WF_vars(RunStep)

(* ===================== install_translation_support ===================== *)
\* install.state is TRANSLATION_INSTALL_STATE (active, finished, ready and
\* step of it); install.calls are the install_translation_support calls in
\* progress; install.workers are the threads the calls have spawned: 0 for
\* a free slot, and for a running installer the number of the phase it
\* sets next.

\* the record install_translation_support assigns before it spawns
InstallStartState == [active |-> TRUE, finished |-> FALSE, ready |-> FALSE, step |-> 0]

\* set_install_phase(step, 4, phase)
set_install_phase(state, step) ==
    [state EXCEPT !.active = TRUE, !.finished = FALSE, !.step = step]

finish_install_success(state) ==
    [state EXCEPT !.active = FALSE, !.finished = TRUE, !.ready = TRUE, !.step = TotalSteps]

finish_install_error(state) ==
    [state EXCEPT !.active = FALSE, !.finished = TRUE, !.ready = FALSE]

RunningInstallers == {w \in Threads : install.workers[w] # 0}

\* the command is invoked
InstallCall(c) ==
    /\ install.calls[c].pc = "idle"
    /\ install' = [install EXCEPT !.calls[c].pc = "check"]
    /\ UNCHANGED <<sessVars, subVars, fetch, poll, form, locks, proc>>

\* let already_active = with_install_state(|state| state.active); an
\* active installation makes the call return the state
InstallCheck(c) ==
    /\ install.calls[c].pc = "check"
    /\ install' = [install EXCEPT
                      !.calls[c] = [pc |-> IF install.state.active THEN "return" ELSE "reset",
                                    already_active |-> install.state.active]]
    /\ UNCHANGED <<sessVars, subVars, fetch, poll, form, locks, proc>>

\* with_install_state(|state| *state = TranslationInstallState { .. })
InstallReset(c) ==
    /\ install.calls[c].pc = "reset"
    /\ install' = [install EXCEPT !.state = InstallStartState, !.calls[c].pc = "spawn"]
    /\ UNCHANGED <<sessVars, subVars, fetch, poll, form, locks, proc>>

\* thread::spawn of the installer
InstallSpawn(c) ==
    /\ install.calls[c].pc = "spawn"
    /\ \E w \in Threads :
          /\ install.workers[w] = 0
          /\ \A v \in Threads : v < w => install.workers[v] # 0
          /\ install' = [install EXCEPT !.workers[w] = 1, !.calls[c].pc = "return"]
    /\ UNCHANGED <<sessVars, subVars, fetch, poll, form, locks, proc>>

\* get_translation_install_state().await: the call returns
InstallReturn(c) ==
    /\ install.calls[c].pc = "return"
    /\ install' = [install EXCEPT !.calls[c] = [pc |-> "idle", already_active |-> FALSE]]
    /\ UNCHANGED <<sessVars, subVars, fetch, poll, form, locks, proc>>

\* run_translation_install reaches its next set_install_phase
InstallerPhase(w) ==
    /\ install.workers[w] \in 1..TotalSteps
    /\ install' = [install EXCEPT
                      !.state = set_install_phase(@, install.workers[w]),
                      !.workers[w] = @ + 1]
    /\ UNCHANGED <<sessVars, subVars, fetch, poll, form, locks, proc>>

\* run_translation_install returns: Err at any point, Ok after the last
\* phase; the thread ends
InstallerFinish(w) ==
    /\ install.workers[w] # 0
    /\ \E ok \in BOOLEAN :
          /\ ok => install.workers[w] = TotalSteps + 1
          /\ install' = [install EXCEPT
                            !.state = IF ok THEN finish_install_success(@)
                                      ELSE finish_install_error(@),
                            !.workers[w] = 0]
    /\ UNCHANGED <<sessVars, subVars, fetch, poll, form, locks, proc>>

InstallInit == Quiet /\ locks = IdleLocks /\ proc = IdleRun /\ install = IdleInstall

InstallNext ==
    \/ \E c \in Threads : InstallCall(c)
    \/ \E c \in Threads : InstallCheck(c)
    \/ \E c \in Threads : InstallReset(c)
    \/ \E c \in Threads : InstallSpawn(c)
    \/ \E c \in Threads : InstallReturn(c)
    \/ \E w \in Threads : InstallerPhase(w)
    \/ \E w \in Threads : InstallerFinish(w)

InstallSpec == InstallInit /\ [][InstallNext]_vars

(* ======================= submission: properties ======================== *)
NeedsVerification(message) == Err(message)
TimedOut == Err(MsgTimedOut)

\* C1: In every submission attempt at most one outcome is ever sent on the
\* completion channel, and it is the outcome of the first callback that
\* tried to deliver; every later delivery finds the slot empty and sends
\* nothing.
C1_AtMostOneOutcome ==
    \A a \in Attempts :
        /\ Len(att[a].sent) <= 1
        /\ Len(att[a].chan) <= 1
        /\ att[a].n_tried = 0 => att[a].sent = <<>>
        /\ att[a].n_tried > 0 => att[a].sent = <<Unwrap(att[a].first_tried)>>

\* a challenge page load delivered first, a success URL tried second and
\* dropped (the surface is closed by the second)
C1_Witness ==
    \E a \in Attempts :
        /\ att[a].n_tried >= 2
        /\ att[a].sent = <<NeedsVerification(MsgChallenge)>>
        /\ a \in challenged
        /\ subWin = NoWindow

\* C2: A cf_submit_solution call made while the stored session state has
\* connected = FALSE returns the not-connected error and changes nothing
\* else: the surface (open or not) is untouched, no channel or sender is
\* created and no other attempt is affected.
C2_NotConnectedNoEffect ==
    [][\A a \in Attempts :
          (att[a].pc = "idle" /\ att'[a].pc # "idle" /\ ~authState.connected)
              => /\ att'[a] = [IdleAttempt EXCEPT !.pc = "returned",
                                                  !.result = Some(Err(MsgNotConnected))]
                 /\ subWin' = subWin
                 /\ \A b \in Attempts \ {a} : att'[b] = att[b]]_vars

\* a rejected call next to the surface an earlier attempt left open
C2_Witness ==
    \E a \in Attempts :
        /\ att[a].result = Some(Err(MsgNotConnected))
        /\ ~authState.connected
        /\ subWin.open /\ subWin.owner # a

\* C3: When the wait of cf_submit_solution ends with no outcome on the
\* channel, the call returns the timed-out error and the step leaves the
\* surface as it is; a surface whose sender slot was still full is open,
\* and owned by the attempt, when the caller has the error.
C3_TimeoutKeepsSurface ==
    [][\A a \in Attempts :
          (att[a].pc = "waiting" /\ att[a].chan = <<>> /\ att'[a].pc = "returned")
              => /\ att'[a].result = Some(TimedOut)
                 /\ subWin' = subWin
                 /\ att[a].sender => (subWin'.open /\ subWin'.owner = a)]_vars

C3_Witness ==
    \E a \in Attempts :
        /\ att[a].pc = "returned" /\ att[a].result = Some(TimedOut)
        /\ att[a].sender
        /\ subWin.open /\ subWin.owner = a

\* The reading of "the URL contains /contest/{contestId}/submission/{digits}"
\* and of "the maximal run of digits after that prefix", stated on the URL
\* alone: the positions right after an occurrence of the prefix, the
\* length of the digit run that starts at a position, and its value in
\* canonical decimal.
PrefixEnds(url, contest_id) ==
    LET prefix == <<"/contest/">> \o Dec(contest_id) \o <<"/submission/">>
    IN  {i + Len(prefix) : i \in {j \in 1..Len(url) :
            j + Len(prefix) - 1 <= Len(url) /\ SubSeq(url, j, j + Len(prefix) - 1) = prefix}}

RunLength(url, start) ==
    CHOOSE k \in 0..Len(url) :
        /\ start + k - 1 <= Len(url)
        /\ \A i \in start..(start + k - 1) : url[i] \in DigitSet
        /\ (start + k <= Len(url) => url[start + k] \notin DigitSet)

RunAt(url, start) == SubSeq(url, start, start + RunLength(url, start) - 1)

Min(S) == CHOOSE x \in S : \A y \in S : x <= y

FitsU64(run) ==
    LET n == StripZeros(run)
    IN  Len(n) < Len(U64MaxDigits)
            \/ (Len(n) = Len(U64MaxDigits) /\ ~DigitsGreater(n, U64MaxDigits))

\* attempt a's surface can report a page load and no outcome has been
\* delivered yet
AwaitingFirstOutcome(a) ==
    SurfaceAlive(a) /\ att[a].sender /\ att[a].n_tried = 0

\* the attempt's record and window after page-load-finished for url
AfterPageLoad(a, url) == on_page_load(Ctx(a), "Finished", url)

DeliversAccepted(a, r, run) ==
    /\ r.s.sent = <<Ok(StripZeros(run))>>
    /\ r.s.chan = IF att[a].rx THEN r.s.sent ELSE <<>>
    /\ r.w = NoWindow

DeliversNothing(a, r) ==
    /\ r.s.sent = <<>> /\ r.s.chan = <<>> /\ r.s.n_tried = 0

\* C4 as stated: a URL that contains the prefix of the attempt's own
\* contest followed by digits delivers Accepted with that digit run and
\* closes the surface; every other URL delivers nothing (read in the
\* claim's favour: every other URL that is not a challenge page).
C4_AsStated ==
    \A a \in Attempts : \A url \in SubmitUrls :
        AwaitingFirstOutcome(a) =>
            LET ends == {e \in PrefixEnds(url, att[a].contest_id) :
                            RunLength(url, e) > 0}
                r == AfterPageLoad(a, url)
            IN  IF ends # {} THEN DeliversAccepted(a, r, RunAt(url, Min(ends)))
                ELSE (~Contains(url, <<"__cf_chl">>) => DeliversNothing(a, r))

\* C4 (amended): while no outcome has been delivered, a page-load-finished
\* event whose URL does not contain the challenge marker __cf_chl, and in
\* which the FIRST occurrence of /contest/{contestId}/submission/ for the
\* attempt's own contestId is directly followed by a digit run whose value
\* fits in 64 bits, delivers Accepted with the value of that maximal digit
\* run and closes the surface; a URL without the challenge marker for which
\* this fails (different contest id, no digit right after the first
\* occurrence, a value beyond 64 bits) delivers nothing.
C4_AcceptedFromUrl ==
    \A a \in Attempts : \A url \in SubmitUrls :
        (AwaitingFirstOutcome(a) /\ ~Contains(url, <<"__cf_chl">>)) =>
            LET ends == PrefixEnds(url, att[a].contest_id)
                r == AfterPageLoad(a, url)
            IN  IF ends # {} /\ RunLength(url, Min(ends)) > 0
                   /\ FitsU64(RunAt(url, Min(ends)))
                THEN DeliversAccepted(a, r, RunAt(url, Min(ends)))
                ELSE DeliversNothing(a, r)

\* submission 55 of contest 12 was read from .../contest/12/submission/055?f=7
C4_Witness ==
    \E a \in Attempts :
        /\ att[a].contest_id = 12
        /\ att[a].sent = <<Ok(<<"5", "5">>)>>
        /\ att[a].n_tried = 1
        /\ subWin = NoWindow

\* C5: once a page load of the attempt has reported a challenge URL, the
\* outcome sent is NeedsVerification, and no later page load of the attempt
\* injects the fill or the inspection script or closes the surface.
C5_AutomationStops ==
    \A a \in Attempts : \A url \in SubmitUrls :
        (a \in challenged /\ SurfaceAlive(a)) =>
            LET r == AfterPageLoad(a, url)
            IN  /\ Len(att[a].sent) = 1 /\ att[a].sent[1].tag = "Err"
                /\ r.s.evals = att[a].evals
                /\ r.w.open /\ r.w.owner = a

\* attempt b has returned an error (timed out, or verification needed) and
\* its surface is still open
EndedNeedingUser(b) ==
    /\ att[b].pc = "returned" /\ IsSome(att[b].result)
    /\ Unwrap(att[b].result).tag = "Err"
    /\ subWin.open /\ subWin.owner = b
    /\ ~(Unwrap(att[b].result).val \in {MsgNavigateFailed})

RetryAfter(a, b) ==
    /\ EndedNeedingUser(b)
    /\ authState.connected
    /\ att[a].pc = "idle" /\ att'[a].pc # "idle"

C7_SessionStateConsistent ==
    /\ ~(authState.connected /\ authState.expired)
    /\ IsSome(authState.handle) => authState.connected

\* two operations are under way, one of them between its store and its
\* emit, the other a navigation callback that has assigned last_url in
\* place; the stored state is connected with a handle
C7_Witness ==
    \E t, u \in Threads :
        /\ ver[t].pc = "emit" /\ ver[u].pc = "n_emit"
        /\ authState.connected /\ IsSome(authState.handle)
        /\ authState.last_url \in {Some(url) : url \in NavUrls}

\* an operation whose next step is verify_codeforces_auth
AboutToVerify(t) ==
    \/ ver[t].pc \in {"startup", "verify"}
    \/ CanBegin(t) /\ started < MaxOps

\* C8: verify_codeforces_auth on a surface whose cookie jar is read with no
\* entries returns the signed-out state and sends no profile request,
\* whatever the transport would have answered.
C8_EmptyJarSignedOut ==
    \A t \in Threads :
        /\ (AboutToVerify(t) /\ cookies = <<>>) =>
               \A j \in DOMAIN ProfileResponses :
                   verify_codeforces_auth(Ok(cookies), ProfileResponses[j])
                       = [result |-> Ok(signed_out), requested |-> FALSE]
        /\ ver[t].read = "empty" =>
               /\ ver[t].status = Some(Ok(signed_out))
               /\ ~ver[t].requested
               /\ ver[t].response = None

\* a scheduled verification has read the empty jar left by a logout
C8_Witness ==
    \E t \in Threads :
        /\ ver[t].pc = "persist" /\ ver[t].kind = "scheduled"
        /\ ver[t].read = "empty"
        /\ cookies = <<>>

IsLoginPage(url) == \E i \in 1..Len(url) : url[i] = "/enter"

IsExpired(state) == state.expired /\ ~state.connected /\ state.handle = None

\* C9: for every profile response received successfully whose final URL is
\* the login page, verify_codeforces_auth returns the Expired state
\* (expired true, connected false, no handle), whatever the body holds.
C9_LoginPageExpired ==
    \A t \in Threads :
        /\ (AboutToVerify(t) /\ cookies # <<>>) =>
               \A j \in DOMAIN ProfileResponses :
                   LET response == ProfileResponses[j]
                       v == verify_codeforces_auth(Ok(cookies), response)
                   IN  (response.tag = "Ok" /\ IsLoginPage(response.val.final_url)) =>
                           (v.result.tag = "Ok" /\ IsExpired(v.result.val))
        /\ (IsSome(ver[t].response) /\ IsLoginPage(Unwrap(ver[t].response).final_url)) =>
               /\ Unwrap(ver[t].status).tag = "Ok"
               /\ IsExpired(Unwrap(ver[t].status).val)

\* the login page came back with a body that shows a profile link
C9_Witness ==
    \E t \in Threads :
        /\ ver[t].pc = "persist"
        /\ ver[t].response = Some([final_url |-> LoginUrl, body |-> BodyWithHandle])
        /\ IsExpired(Unwrap(ver[t].status).val)

SignedOutWith(state, err) ==
    /\ ~state.connected /\ ~state.expired /\ state.handle = None
    /\ state.message = err

FetchFailed(r) ==
    /\ r.requested
    /\ IsSome(r.status) /\ Unwrap(r.status).tag = "Err"

\* C10: whenever the profile fetch of a verification fails, the stored
\* session state is SignedOut with the error text as its message once the
\* operation has handled the failure: for cf_get_auth_status and the
\* startup refresh when refresh_codeforces_auth_state has returned, for the
\* scheduled refresh when its error arm has stored.
C10_FetchFailureSignsOut ==
    [][\A t \in Threads :
          /\ (ver[t].pc # "return" /\ ver'[t].pc = "return" /\ FetchFailed(ver'[t]))
                 => SignedOutWith(authState', Unwrap(ver'[t].status).val)
          /\ (ver[t].pc = "e_store" /\ ver'[t].pc = "e_emit" /\ FetchFailed(ver[t]))
                 => SignedOutWith(authState', Unwrap(ver[t].status).val)]_vars

\* the step in which operation t stores its result: set_codeforces_auth_state
\* of refresh_codeforces_auth_state, of cf_logout, or of the error arm
StoresResult(t) ==
    \/ ver[t].pc = "store" /\ ver'[t].pc = "emit"
    \/ ver[t].pc = "e_store" /\ ver'[t].pc = "e_emit"

\* C11: when session-state writers overlap, an operation never replaces,
\* by storing its result, the result stored by an operation that began
\* after it (storing an equal record replaces nothing); in
\* particular a verification that began before a logout does not store
\* connected over the SignedOut that the logout stored.
C11_StaleNeverOverwrites ==
    [][\A t \in Threads :
          (StoresResult(t) /\ authState' # authState) => ver[t].seq >= writer]_vars

\* operation t is at the store of a set_codeforces_auth_state call, about
\* to replace the record by the snapshot `snap` it has computed
AtStore(t, snap) ==
    \/ ver[t].pc = "store" /\ snap = Unwrap(ver[t].status).val
    \/ ver[t].pc = "s_store" /\ snap = CheckingState(ver[t].cur)
    \/ ver[t].pc = "e_store" /\ snap = ErrorState(ver[t].cur, Unwrap(ver[t].status).val)

\* operation t has stored and is about to broadcast
AtEmit(t) == ver[t].pc \in {"emit", "s_emit", "e_emit"}

SnapshotHeld(r) == IF r.pc = "emit" THEN Unwrap(r.status).val ELSE r.cur

\* C12: every step that changes the stored session state is the store of a
\* whole snapshot the writing operation has computed, and the broadcast
\* that follows the store carries that snapshot; no step assigns a field
\* of the stored record in place.
C12_WholeRecordWrites ==
    [][/\ authState' # authState =>
            \E t \in Threads :
                /\ AtStore(t, authState')
                /\ ver'[t].pc # ver[t].pc /\ ver'[t].pc \in {"emit", "s_emit", "e_emit"}
       /\ \A t \in Threads :
            (AtEmit(t) /\ ver'[t].pc # ver[t].pc) => emitted' = Some(SnapshotHeld(ver[t]))]_vars

\* cf_get_auth_status call t is about to return a snapshot; it began after
\* the last cf_get_auth_status call returned its snapshot, the cookies have
\* not changed since, and both calls read the same cookies
SecondStatus(t) ==
    /\ ver[t].pc = "emit" /\ ver[t].kind = "status"
    /\ IsSome(lastStatus)
    /\ ver[t].seq > Unwrap(lastStatus).upto
    /\ ver[t].jar = Unwrap(lastStatus).jar

SameSession(a, b) == a.connected = b.connected /\ a.handle = b.handle

\* C13: two cf_get_auth_status calls in immediate succession, with no
\* change of the cookies between them and the same response of the site
\* to the verification request of both, return snapshots with identical
\* connected and handle fields.
C13_StatusIdempotent ==
    \A t \in Threads :
        (SecondStatus(t) /\ ver[t].response = Unwrap(lastStatus).response) =>
            SameSession(RefreshReturn(t).val, Unwrap(lastStatus).ret)

\* a second call returns the connected snapshot the first one returned,
\* while the stored record is what another operation wrote
C13_Witness ==
    \E t \in Threads :
        /\ SecondStatus(t) /\ ver[t].response = Unwrap(lastStatus).response
        /\ RefreshReturn(t).val.connected /\ IsSome(RefreshReturn(t).val.handle)
        /\ authState # RefreshReturn(t).val

\* C13 as stated: no change of the cookies alone makes the two snapshots
\* agree on connected and handle
C13_AsStated ==
    \A t \in Threads :
        SecondStatus(t) => SameSession(RefreshReturn(t).val, Unwrap(lastStatus).ret)

(* ================= cf_get_submission_status: properties ================ *)
\* the call has returned after the API answered with an array of entries
PollAnswered ==
    /\ poll.pc = "done"
    /\ IsSome(poll.data)
    /\ Unwrap(poll.data).tag = "Ok"
    /\ IsSome(Unwrap(poll.data).val.result)

PollEntries == Unwrap(Unwrap(poll.data).val.result)
PollResult == Unwrap(poll.ret).val

TimeOf(entry) ==
    IF entry.creationTimeSeconds = <<>> THEN 0 ELSE entry.creationTimeSeconds[1]

OfRequestedProblem(entry) ==
    entry.contestId = <<PollContest>> /\ entry.index = <<PollIndex>>

\* the entry is a plausible match of the poll: of the requested problem and
\* not older than the slack before submitted_after
Plausible(entry) ==
    OfRequestedProblem(entry) /\ TimeOf(entry) + SlackSeconds >= poll.submitted_after

HasId(entry, id) == entry.id = <<id>>

\* C14: a poll with a submissionId finds an entry exactly when a fetched
\* entry has that id, and returns the id and the verdict of the first such
\* entry, whatever its contest, index and creation time; when no entry has
\* the id nothing is found, also when an entry is a plausible match.
C14_MatchById ==
    (PollAnswered /\ IsSome(poll.submission_id)) =>
        LET id == poll.submission_id[1]
            with == {i \in DOMAIN PollEntries : HasId(PollEntries[i], id)}
        IN  /\ PollResult.found <=> with # {}
            /\ PollResult.found =>
                 \E i \in with :
                    /\ \A j \in with : i <= j
                    /\ PollResult.id = PollEntries[i].id
                    /\ PollResult.verdict = PollEntries[i].verdict

\* the entry with the id is of another contest, and a plausible entry of
\* the requested problem is listed before it
C14_Witness ==
    /\ PollAnswered /\ poll.submission_id = <<5>>
    /\ PollResult.found /\ PollResult.id = <<5>>
    /\ Len(PollEntries) >= 2
    /\ Plausible(PollEntries[1])
    /\ ~OfRequestedProblem(PollEntries[2]) /\ HasId(PollEntries[2], 5)

PlausiblePositions == {i \in DOMAIN PollEntries : Plausible(PollEntries[i])}

NewestFirst ==
    \A i, j \in DOMAIN PollEntries : i < j => TimeOf(PollEntries[i]) >= TimeOf(PollEntries[j])

\* the poll returned the entry at position i
ReturnedAt(i) ==
    /\ PollResult.id = PollEntries[i].id
    /\ PollResult.verdict = PollEntries[i].verdict

C16_SlackWindow ==
    (PollAnswered /\ poll.submission_id = <<>>) =>
        /\ PollResult.found <=>
             \E i \in DOMAIN PollEntries :
                /\ OfRequestedProblem(PollEntries[i])
                /\ \/ poll.submitted_after < SlackSeconds
                   \/ TimeOf(PollEntries[i]) >= poll.submitted_after - SlackSeconds
        /\ PollResult.found =>
             \E i \in DOMAIN PollEntries :
                /\ ReturnedAt(i)
                /\ OfRequestedProblem(PollEntries[i])
                /\ \/ poll.submitted_after < SlackSeconds
                   \/ TimeOf(PollEntries[i]) >= poll.submitted_after - SlackSeconds

\* the entry one second older than the edge is passed over and the entry
\* exactly on the edge, listed after it, is returned
C16_Witness ==
    /\ PollAnswered /\ poll.submission_id = <<>> /\ PollResult.found
    /\ poll.submitted_after >= SlackSeconds
    /\ Len(PollEntries) = 2
    /\ OfRequestedProblem(PollEntries[1]) /\ OfRequestedProblem(PollEntries[2])
    /\ TimeOf(PollEntries[1]) = poll.submitted_after - SlackSeconds - 1
    /\ TimeOf(PollEntries[2]) = poll.submitted_after - SlackSeconds
    /\ ReturnedAt(2) /\ ~ReturnedAt(1)

\* the lines of the text after "recent=": the pieces between " | ", none
\* for the text "none"
RECURSIVE SplitLines(_, _)
SplitLines(text, line) ==
    IF text = <<>> THEN <<line>>
    ELSE IF Head(text) = " | " THEN <<line>> \o SplitLines(Tail(text), <<>>)
    ELSE SplitLines(Tail(text), Append(line, Head(text)))

DiagnosticLines(debug) ==
    IF debug.recent = <<"none">> THEN <<>> ELSE SplitLines(debug.recent, <<>>)

\* the lines describe entries of the requested problem, in the order of
\* the list: line k describes the entry at position f[k], f increasing
InListOrder(lines) ==
    \E f \in [DOMAIN lines -> DOMAIN PollEntries] :
        /\ \A k \in DOMAIN lines :
              /\ OfRequestedProblem(PollEntries[f[k]])
              /\ lines[k] = CandidateLine(PollEntries[f[k]])
        /\ \A k, l \in DOMAIN lines : k < l => f[k] < f[l]

\* C17: when no entry matches, the call returns found = false, finished =
\* false, no id and no verdict, and a diagnostic that lists at most 3
\* entries, each of the requested contest and index, in the order of the
\* API's list.
C17_NotFoundDiagnostic ==
    (PollAnswered /\ ~PollResult.found) =>
        /\ ~PollResult.finished
        /\ PollResult.id = <<>>
        /\ PollResult.verdict = <<>>
        /\ PollResult.debug # <<>>
        /\ LET lines == DiagnosticLines(PollResult.debug[1])
           IN  /\ Len(lines) <= DiagnosticLimit
               /\ InListOrder(lines)

\* four entries of the requested problem are listed, none matches, and
\* the diagnostic lists three
C17_Witness ==
    /\ PollAnswered /\ ~PollResult.found
    /\ Cardinality({i \in DOMAIN PollEntries : OfRequestedProblem(PollEntries[i])}) = 4
    /\ Len(DiagnosticLines(PollResult.debug[1])) = DiagnosticLimit

\* the call has returned a record
PollReturned == poll.pc = "done" /\ poll.ret # <<>> /\ poll.ret[1].tag = "Ok"

\* C18: in every record the call returns, finished is true exactly when a
\* verdict is present and is not "TESTING"; a record with found = false
\* or without a verdict has finished = false.
C18_FinishedIffVerdict ==
    PollReturned =>
        /\ PollResult.finished <=>
             (PollResult.verdict # <<>> /\ PollResult.verdict[1] # "TESTING")
        /\ ~PollResult.found => ~PollResult.finished
        /\ PollResult.verdict = <<>> => ~PollResult.finished

\* a submission that is still being tested
C18_Witness ==
    /\ PollReturned /\ PollResult.found
    /\ PollResult.verdict = <<"TESTING">>
    /\ ~PollResult.finished

\* C19: when more than one fetched entry is a plausible match of a poll
\* without submissionId, the call reports found = false with a diagnostic
\* and picks none of them.
C19_AmbiguityReported ==
    (/\ PollAnswered /\ poll.submission_id = <<>>
     /\ \E i, j \in PlausiblePositions : PollEntries[i].id # PollEntries[j].id) =>
        /\ ~PollResult.found
        /\ PollResult.debug # <<>>

(* ========================= fetchers: properties ======================== *)
\* the requests of the running call: no more than 3 by the client and 1
\* curl process; a request goes out only when every earlier one has
\* failed; after a request that succeeded the call only returns; the curl
\* process is started only when 3 requests have failed
FetchBounded ==
    /\ fetch.primaries <= PrimaryAttempts
    /\ fetch.fallbacks <= 1
    /\ fetch.primaries - fetch.failures \in {0, 1}
    /\ fetch.primaries - fetch.failures = 1 => fetch.pc \in {"wait", "done"}
    /\ (fetch.pc = "done" /\ fetch.fallbacks = 0) =>
          /\ fetch.ret # <<>> /\ fetch.ret[1].tag = "Ok"
          /\ fetch.primaries = fetch.failures + 1
    /\ fetch.fallbacks = 1 =>
          /\ fetch.primaries = PrimaryAttempts
          /\ fetch.failures = PrimaryAttempts

\* C20: every call of fetch_codeforces_html and fetch_codeforces_api_json
\* ends, after at most 3 requests of the client and at most 1 curl
\* fallback, one after the other; it returns at the first request that
\* succeeds and makes no further one, and the fallback runs only after 3
\* requests have failed.
C20_FetchTerminates ==
    /\ []FetchBounded
    /\ (fetch.pc # "idle") ~> (fetch.pc = "done")

\* a call that has returned what the fallback gave after 3 failed requests
C20_Witness ==
    /\ fetch.pc = "done"
    /\ fetch.primaries = PrimaryAttempts /\ fetch.failures = PrimaryAttempts
    /\ fetch.fallbacks = 1
    /\ fetch.ret # <<>>

\* the call has returned after its 3 requests failed and curl ran
FellBack == fetch.pc = "done" /\ fetch.fallbacks = 1 /\ fetch.got # <<>>

\* curl ended with the status of success and a body that is text
FallbackSucceeded == FellBack /\ fetch.got[1].error = ""

\* C21: when the 3 requests of the client have failed and curl then
\* succeeds, fetch_codeforces_html returns the body curl obtained, and
\* fetch_codeforces_api_json returns that body parsed when it is JSON; a
\* body that is not JSON makes fetch_codeforces_api_json return an error.
C21_FallbackBodyReturned ==
    FallbackSucceeded =>
        LET body == fetch.got[1].doc
            r == fetch.ret[1]
        IN  /\ fetch.kind = "html" => (r.tag = "Ok" /\ r.val = body)
            /\ (fetch.kind = "api" /\ body.is_json) =>
                  (r.tag = "Ok" /\ r.val = [status |-> body.status])
            /\ (fetch.kind = "api" /\ ~body.is_json) => r.tag = "Err"

\* the page fetcher returns the page curl obtained after 3 failures
C21_Witness ==
    /\ FallbackSucceeded /\ fetch.kind = "html"
    /\ Len(fetch.errors) = PrimaryAttempts
    /\ fetch.ret[1].tag = "Ok" /\ fetch.ret[1].val = HtmlDoc

\* C21 as stated: whenever curl succeeds after the 3 failures, the
\* fetcher returns a body and not an error
C21_AsStated == FallbackSucceeded => fetch.ret[1].tag = "Ok"

\* C22: when the 3 requests and the fallback have all failed, the error
\* returned holds the description of the failure of request 1, of request
\* 2, of request 3 and of the fallback.
C22_CompositeError ==
    (FellBack /\ fetch.got[1].error # "") =>
        /\ fetch.ret[1].tag = "Err"
        /\ \A k \in 1..PrimaryAttempts : Contains(fetch.ret[1].val, fetch.errors[k])
        /\ Contains(fetch.ret[1].val, <<fetch.got[1].error>>)

\* C23: fetch_codeforces_api_json returns a document as success only when
\* its status member is "OK", from a request of the client and from the
\* fallback alike.
C23_StatusOkOnly ==
    (fetch.pc = "done" /\ fetch.kind = "api" /\ fetch.ret[1].tag = "Ok") =>
        fetch.ret[1].val.status = <<"OK">>

\* the profile requests the verification of an operation has sent
RequestsSent(r) == IF r.requested THEN 1 ELSE 0

\* C24: the profile request of verify_codeforces_auth is retried up to
\* the bound of the fetcher: a verification ends in the transport error
\* of the request only when that many requests have been sent, so that
\* one failure followed by a response gives the classification of the
\* response.
C24_VerificationRetries ==
    \A t \in Threads :
        (/\ ver[t].status # <<>>
         /\ ver[t].status[1].tag = "Err"
         /\ ver[t].status[1].val = MsgSendFailed) =>
            RequestsSent(ver[t]) >= PrimaryAttempts

(* ===================== submit form functions: properties =============== *)
\* the positions, in the preference list of the language, of the names
\* that some option's label holds
MatchedPreferences ==
    {k \in DOMAIN Preferences(form.lang) :
        \E i \in DOMAIN form.options :
            Contains(form.options[i].label, <<Preferences(form.lang)[k]>>)}

\* C25: for every language and list of options, the option the injected
\* script gives to the select is one whose label holds the earliest name
\* of the preference list that any label holds, whatever the order of the
\* options, and select_program_type_id returns the same option; both
\* choose nothing when no label holds a preferred name.
C25_PreferenceDecides ==
    form.op = "select" =>
        /\ form.host = form.script
        /\ MatchedPreferences = {} => form.script = <<>>
        /\ MatchedPreferences # {} =>
             LET best == CHOOSE k \in MatchedPreferences :
                            \A l \in MatchedPreferences : k <= l
             IN  \E i \in DOMAIN form.options :
                    /\ Contains(form.options[i].label, <<Preferences(form.lang)[best]>>)
                    /\ form.script = <<form.options[i].value>>

\* the page that was parsed, and what the parse returned for it
ParsedPage == form.page[1]
ParsedForm == form.parsed[1].val

\* the value attribute of the hidden field of that name in the submit
\* form of the page, the empty text when the form has no such field
HiddenValue(name) ==
    LET inputs == ParsedPage.forms[2].inputs
        at == {i \in DOMAIN inputs : inputs[i].name = name}
    IN  IF at = {} THEN <<>> ELSE inputs[CHOOSE i \in at : TRUE].value[1]

\* what the inline script of the page assigns to the variable
ScriptValue(var_name) ==
    IF ParsedPage.html = <<>> THEN <<>>
    ELSE IF var_name = "_ftaa" THEN <<<<"f7k2">>>>
    ELSE IF var_name = "_bfaa" THEN <<<<"b9q4">>>>
    ELSE <<<<"3", "7", "7">>>>

TokenFrom(name, var_name) ==
    IF HiddenValue(name) # <<>> THEN <<HiddenValue(name)>> ELSE ScriptValue(var_name)

\* C29: for a page whose inline script assigns the three variables,
\* parse_submit_form_page takes ftaa, bfaa and tta from the hidden field
\* when the field has a non-empty value and from the variable of the
\* script otherwise: an empty hidden field gives the value of the script,
\* and a missing _tta field with "var _tta = 377;" gives "377".
C29_TokenFallback ==
    (form.op = "parse" /\ form.parsed[1].tag = "Ok" /\ ParsedPage.html # <<>>) =>
        /\ ParsedForm.ftaa = TokenFrom("ftaa", "_ftaa")
        /\ ParsedForm.bfaa = TokenFrom("bfaa", "_bfaa")
        /\ ParsedForm.tta = TokenFrom("_tta", "_tta")

(* ===================== persisted cookies: properties =================== *)
Elements(seq) == {seq[i] : i \in DOMAIN seq}

WorthKeeping(cookie) == cookie.value # "" /\ cookie.name \notin AnalyticsCookieNames

\* operation t is about to run save_codeforces_cookies
AboutToSave(t) ==
    /\ ver[t].pc = "persist"
    /\ ver[t].status[1].tag = "Ok"
    /\ ver[t].status[1].val.connected

\* C26: every cookie in the persisted jar has a non-empty value and a name
\* that is not an analytics name, and save_codeforces_cookies writes every
\* other cookie of the webview: what it is about to write holds a cookie
\* of the webview exactly when the cookie is worth keeping.
C26_PersistedJarFiltered ==
    /\ saved # <<>> => \A c \in Elements(saved[1]) : WorthKeeping(c)
    /\ \A t \in Threads :
          AboutToSave(t) =>
              \A c \in Elements(cookies) :
                  c \in Elements(snapshot_codeforces_cookies(cookies)) <=> WorthKeeping(c)

\* the webview held the session cookie, an analytics cookie and a cookie
\* with an empty value, and the session cookie alone has been written
C26_Witness ==
    /\ Len(cookies) = 3
    /\ \E c \in Elements(cookies) : c.value = ""
    /\ \E c \in Elements(cookies) : c.name \in AnalyticsCookieNames
    /\ saved # <<>> /\ Len(saved[1]) = 1
    /\ \E t \in Threads : ver[t].pc = "store" /\ ver[t].kind = "status"
                          /\ ver[t].status[1].val.connected

(* ============================ cf_logout: properties ==================== *)
\* cf_logout is the only command issued since the app started: operation
\* 1 is the verification of the startup thread, operation 2 the logout
OnlyLogout(t) == ver[t].kind = "logout" /\ ver[t].seq = 2 /\ started = 2

\* C27, for the runs in which cf_logout is the only command issued: when
\* cf_logout is about to return success the persisted jar is absent, the
\* stored state is the signed-out state and the login and submission
\* windows are closed; when deleting the persisted jar failed, cf_logout
\* returns the error and has not stored a state.
C27_LogoutPostcondition ==
    \A t \in Threads :
        /\ (OnlyLogout(t) /\ ver[t].pc = "emit") =>
              /\ saved = <<>>
              /\ authState = signed_out
              /\ ~authWin
              /\ ~subWin.open
        /\ (OnlyLogout(t) /\ ver[t].pc = "return") =>
              /\ ver[t].status[1].tag = "Err"
              /\ writer # ver[t].seq

(* ===================== the form-fill script: properties ================ *)
\* the scripts attempt a's surface was given, as a set of positions
Injections(a) == {i \in DOMAIN att[a].evals : att[a].evals[i] = "submit_script"}

\* the page that sets the error title after the script found no form
TitleNoForm == <<"__BINGOOJ_SUBMIT_ERROR__:", "Codeforces submit form was not found.">>

\* C30: in every attempt the form-fill script is injected at most once: it
\* is the first script the surface is given, it is given as soon as one
\* finished load of the submit page has happened and not before, and no
\* later load gives it again, also after the error title was reported.
C30_InjectedOnce ==
    \A a \in Attempts :
        /\ Injections(a) = IF att[a].submit_loads = 0 THEN {} ELSE {1}
        /\ \A title \in SubmitTitles :
              on_document_title_changed(Ctx(a), title).s.evals = att[a].evals
        /\ att[a].form_submitted =>
              \A event \in PageLoadEvents, url \in SubmitUrls :
                  Injections(a) = {i \in DOMAIN on_page_load(Ctx(a), event, url).s.evals :
                                      on_page_load(Ctx(a), event, url).s.evals[i] = "submit_script"}

\* the script reported that the form was not found, and the submit page
\* has loaded three times: one injection
C30_Witness ==
    \E a \in Attempts :
        /\ att[a].submit_loads = MaxEvents
        /\ att[a].first_tried = Some(Err(Tail(TitleNoForm)))
        /\ att[a].evals = <<"submit_script", "inspect_script">>

(* ======================= ignored failures: properties ================== *)
\* C28, for the restore of the cookies into the submission window: a call
\* of cf_submit_solution in which restore_codeforces_cookies failed returns
\* an error.
C28_RestoreFailureReported ==
    \A a \in Attempts :
        (att[a].pc = "returned" /\ att[a].restore_failed) =>
            att[a].result[1].tag = "Err"

(* ==================== the inspection script: properties ================ *)
\* the inspections attempt a's surface was given, as a set of positions
Inspections(a) == {i \in DOMAIN att[a].evals : att[a].evals[i] = "inspect_script"}

\* C31, as the code has it: the first finished load of the submit page
\* after the form was filled injects the inspection script, and the loads
\* after it inject nothing.
C31_FirstReloadInspected ==
    \A a \in Attempts :
        att[a].evals = CASE att[a].submit_loads = 0 -> <<>>
                         [] att[a].submit_loads = 1 -> <<"submit_script">>
                         [] OTHER -> <<"submit_script", "inspect_script">>

\* the submit page came back more than once after the form was filled
C31_Witness ==
    \E a \in Attempts :
        /\ att[a].submit_loads = MaxEvents
        /\ att[a].inspect_requested
        /\ att[a].n_tried = 0
        /\ Inspections(a) = {2}

\* C31 as stated: every finished load of the submit page after the one
\* that filled the form is inspected.
C31_AsStated ==
    \A a \in Attempts :
        att[a].submit_loads >= 1 =>
            Cardinality(Inspections(a)) = att[a].submit_loads - 1

(* ======================= the sentinel titles: properties =============== *)
\* the call of attempt a waits and nothing has been delivered to it
AwaitingOutcome(a) ==
    /\ subWin.open /\ subWin.owner = a
    /\ att[a].pc = "waiting"
    /\ att[a].sender /\ att[a].rx /\ att[a].chan = <<>>

\* title.strip_prefix("__BINGOOJ_SUBMIT_ERROR__:") is Some
HasErrorPrefix(title) == title # <<>> /\ Head(title) = "__BINGOOJ_SUBMIT_ERROR__:"

\* C32: while no outcome has been delivered, a title that starts with the
\* error prefix delivers Err with exactly the text after the prefix, takes
\* the sender and leaves the window open; the title __BINGOOJ_SUBMITTING__
\* changes nothing.
C32_TitleSentinel ==
    \A a \in Attempts :
        AwaitingOutcome(a) =>
            \A title \in SubmitTitles :
                LET r == on_document_title_changed(Ctx(a), title)
                IN  /\ HasErrorPrefix(title) =>
                          /\ r.s.chan = <<Err(Tail(title))>>
                          /\ r.s.sent = <<Err(Tail(title))>>
                          /\ ~r.s.sender
                          /\ r.w.open /\ r.w.owner = a
                    /\ title = <<"__BINGOOJ_SUBMITTING__">> => r = Ctx(a)

\* the call returned the text the script put after the prefix, and the
\* window is still open
C32_Witness ==
    \E a \in Attempts :
        /\ att[a].pc = "returned"
        /\ att[a].result = Some(Err(Tail(TitleNoForm)))
        /\ att[a].n_tried = 1
        /\ subWin.open /\ subWin.owner = a /\ subWin.title = TitleVerification

(* ================= the jar after a verification: properties ============ *)
\* thread t takes the step of refresh_codeforces_auth_state that follows a
\* completed verification
PersistStep(t) == ver[t].pc = "persist" /\ ver'[t].pc = "store"

\* what a completed verification puts in place of the persisted jar
JarFor(status) ==
    IF status.connected THEN Some(snapshot_codeforces_cookies(cookies)) ELSE None

\* thread t takes a step of a verification, a scheduled refresh or a
\* navigation callback that is not the step after a completed verification
OtherVerificationStep(t) ==
    /\ ver'[t] # ver[t]
    /\ ver[t].kind # "logout" /\ ver'[t].kind # "logout"
    /\ ~PersistStep(t)

ResultPending(t) ==
    /\ ver[t].kind = "scheduled"
    /\ ver[t].pc \in {"s_emit", "verify", "persist", "store", "e_read", "e_store"}

AllFinished == \A t \in Threads : ver[t].pc = "idle"

\* C36: in every reachable state, when the stored record has checking set
\* a scheduled refresh has yet to store its result; when no operation is
\* running the stored record has checking unset.
C36_CheckingMeansPending ==
    /\ authState.checking => \E t \in Threads : ResultPending(t)
    /\ AllFinished => ~authState.checking

\* a scheduled refresh stored its checking record over the record a logout
\* had stored, and has its result ready to store
C36_Witness ==
    /\ authState.checking
    /\ \E t \in Threads : ver[t].kind = "scheduled" /\ ver[t].pc = "store"
    /\ \E u \in Threads : ver[u].kind = "logout" /\ ver[u].pc = "emit"

(* ================== the last broadcast: properties ===================== *)
\* C37: when no operation on the session is running and a snapshot has been
\* broadcast on cf-auth-status, the snapshot broadcast last is the stored
\* record.
C37_LastBroadcastIsStored ==
    (AllFinished /\ emitted # <<>>) => emitted = <<authState>>

(* =================== an observed success URL: properties =============== *)
\* the call of attempt a got as far as the wait on the channel and has
\* returned from it
ReturnedFromWait(a) ==
    /\ att[a].pc = "returned"
    /\ att[a].result \notin {<<Err(MsgNotConnected)>>, <<Err(MsgOpenFailed)>>,
                             <<Err(MsgNavigateFailed)>>}

\* C38, for the success URLs loaded while the sender was still in its
\* slot: a call that waited and has returned, and for whose attempt
\* finish_webview_submit sent Ok(id), has returned Ok(id).
C38_SuccessReachesCaller ==
    \A a \in Attempts :
        \A i \in DOMAIN att[a].sent :
            (ReturnedFromWait(a) /\ att[a].sent[i].tag = "Ok") =>
                att[a].result = <<att[a].sent[i]>>

(* ================== a poll without a handle: properties ================ *)
\* C39: a call of cf_get_submission_status made while the stored state has
\* no handle returns the no-handle error and has fetched nothing; this
\* holds as well for a stored state that is connected, which the gate of
\* cf_submit_solution lets through.
C39_NoHandleNoRequest ==
    ~IsSome(authState.handle) =>
        /\ poll.pc # "fetching"
        /\ poll.pc = "done" => poll.ret = Some(Err(MsgNoHandle)) /\ poll.data = None

\* connected without a handle: the submit gate is open and the poll has
\* returned the error
C39_Witness ==
    /\ authState.connected /\ ~IsSome(authState.handle)
    /\ SubmitGate(authState)
    /\ poll.pc = "done"
    /\ poll.ret = Some(Err(MsgNoHandle))
    /\ IsSome(poll.submission_id)

(* ====================== the mutex: properties ========================== *)
\* C33: in every reachable state no thread holds the mutex of the session
\* state while a request it sent is in flight, and a mutex that is held is
\* held by a thread inside a closure of with_codeforces_auth_state.
C33_NoRequestUnderLock ==
    /\ \A t \in Threads : locks.th[t].inflight => locks.holder # t
    /\ locks.holder # 0 =>
          Program(locks.th[locks.holder].op)[locks.th[locks.holder].i]
              \in {"clone", "assign", "unlock"}

\* one thread waits for the answer of its request while the other holds
\* the mutex
C33_Witness ==
    \E t, u \in Threads :
        /\ locks.th[t].inflight
        /\ locks.th[t].op = "status"
        /\ locks.holder = u
        /\ locks.th[u].op = "scheduled"

(* ================ run_process_with_input: properties =================== *)
\* C34: every call of run_process_with_input that has spawned its child
\* returns.
C34_RunReturns == (proc.pc = "write") ~> (proc.pc = "done")

(* ============== install_translation_support: properties =============== *)
\* C40: in every reachable state at most one installer thread runs, and a
\* call that is about to assign the start record or to spawn does so while
\* no installer runs.
C40_SingleInstaller ==
    /\ Cardinality(RunningInstallers) <= 1
    /\ \A c \in Threads :
          install.calls[c].pc = "reset" => RunningInstallers = {}

====
